---- MODULE Spec2Model ----
(***************************************************************************)
(* AeroUnity: the constraint / objective framework, the constraint         *)
(* validator, the mission planners, the visibility-window detector, the    *)
(* wind model, the flight simulator and the Monte-Carlo driver, as state   *)
(* machines.                                                               *)
(*                                                                         *)
(* Numbers.  Python floats are modelled by exact rationals <<n, d>>        *)
(* (d > 0, lowest terms); times are whole seconds; angles are computed in  *)
(* whole degrees, turn angles then converted to radians with pi taken to   *)
(* three decimals.  A Python dict is a function whose DOMAIN is the set of *)
(* keys present, read with Get(dict, key, default) like dict.get.          *)
(***************************************************************************)
EXTENDS Integers, Sequences, FiniteSets, TLC

VARIABLES
    \* SpecConstraint: one Constraint.evaluate call
    constraint,     \* the constraint object
    state,          \* the state bag passed to evaluate
    result,         \* evaluate's return value, or NoResult
    \* SpecObjective: one Objective.evaluate call
    objective,      \* the objective object
    objSolution,    \* the solution bag passed to evaluate
    objValue,       \* evaluate's return value, or NoResult
    \* SpecPlanner: a MissionPlanner instance
    kind,           \* the planner's class
    config,         \* the domain objects the planner was constructed with
    constraints,    \* self.constraints
    objectives,     \* self.objectives
    solution,       \* self.solution
    returned,       \* the value the last solve() returned, or None
    call,           \* the last call completed: [op, arg, ret]
    \* SpecWindows: one run of compute_target_windows / compute_station_windows
    fn,                     \* the function running
    locations,              \* the names of self.ground_targets / self.ground_stations
    mission_duration_days,  \* self.mission_duration_days
    loc,                    \* position of the outer for loop in locations (1-based)
    current_time,           \* seconds since the epoch (start_time)
    in_window,
    window_start,
    location_windows,       \* target_windows / station_windows of the current location
    windows,                \* the dict being built: name -> list of (start, end)
    sampled,                \* name -> what is_visible returned at each sample
    \* SpecSim: one run of FlightSimulator.simulate_mission
    sim_pc,             \* where simulate_mission stands
    sim_config,         \* aircraft parameters, wind and waypoints
    all_states,
    segment,            \* the loop index i of simulate_mission
    segment_states,     \* simulate_to_target's states
    iteration,          \* iterations of simulate_to_target's loop so far
    current_state,      \* simulate_to_target's current_state
    sim_result,         \* simulate_mission's return value, or None
    \* SpecMC: the trials of AircraftValidator.monte_carlo_wind_test
    scenario,           \* base_scenario
    np_random,          \* state of numpy's process-wide generator
    trial_pc,           \* trial -> the statement the trial is at
    trial_wind,         \* trial -> trial_wind
    trial_solution,     \* trial -> solution
    trial_valid,        \* trial -> (is_valid, violations)
    results,            \* results['trials']
    \* SpecWind: a WindModel instance and its caller
    wind_model,         \* the instance: wind_type, base_wind, rng
    caller_position,    \* the position array the caller passes to get_wind
    wind_calls,         \* the get_wind calls completed: [position, time, ret]
    \* SpecPath: one run of AircraftMissionPlanner.simulate_path
    path_pc,            \* where simulate_path stands
    path_config,        \* the planner's aircraft parameters
    path_arg,           \* the path argument
    path_i,             \* the loop index i
    path_state,         \* the AircraftState object named state, or None
    path_state_created, \* the field values that object was created with
    path_times,         \* times
    path_total_energy   \* total_energy

cvars == <<constraint, state, result>>
ovars == <<objective, objSolution, objValue>>
pvars == <<kind, config, constraints, objectives, solution, returned, call>>
wvars == <<fn, locations, mission_duration_days, loc, current_time, in_window,
           window_start, location_windows, windows, sampled>>
svars == <<sim_pc, sim_config, all_states, segment, segment_states, iteration,
           current_state, sim_result>>
mvars == <<scenario, np_random, trial_pc, trial_wind, trial_solution, trial_valid,
           results>>
gvars == <<wind_model, caller_position, wind_calls>>
avars == <<path_pc, path_config, path_arg, path_i, path_state, path_state_created,
           path_times, path_total_energy>>
xvars == <<gvars, avars>>
vars == <<cvars, ovars, pvars, wvars, svars, mvars, xvars>>

(***************************************************************************)
(* Bounds of the model                                                     *)
(***************************************************************************)
MaxPathLen == 3
MaxSchedLen == 2
MaxConstraints == 2
MaxObjectives == 2
MaxWeights == 2
MaxDays == 1          \* mission_duration_days ranges over 0..MaxDays
SamplesPerDay == 3    \* a day is shortened to this many 60 s samples
MaxWaypoints == 3
MaxTrials == 2        \* num_trials ranges over 1..MaxTrials

(***************************************************************************)
(* Arithmetic helpers                                                      *)
(***************************************************************************)
Abs(x) == IF x < 0 THEN -x ELSE x

Min2(a, b) == IF b < a THEN b ELSE a

Max2(a, b) == IF b > a THEN b ELSE a

RECURSIVE GCD(_, _)
GCD(a, b) == IF b = 0 THEN a ELSE GCD(b, a % b)

\* a float, as the exact rational n/d in lowest terms
Rat(n, d) ==
    LET g == GCD(Abs(n), d)
    IN  <<n \div g, d \div g>>

RInt(n) == <<n, 1>>

RZero == <<0, 1>>

\* n1/d1 < n2/d2 for n1, n2 >= 0 and d1, d2 > 0, by whole parts and then
\* the reciprocals of the remainders, so that no product is formed
RECURSIVE FracLess(_, _, _, _)
FracLess(n1, d1, n2, d2) ==
    IF n1 \div d1 # n2 \div d2 THEN n1 \div d1 < n2 \div d2
    ELSE IF n2 % d2 = 0 THEN FALSE
    ELSE IF n1 % d1 = 0 THEN TRUE
    ELSE FracLess(d2, n2 % d2, d1, n1 % d1)

\* a < b: by cross-multiplication where the products fit 32 bits
RLess(a, b) ==
    IF Abs(a[1]) < 30000 /\ Abs(b[1]) < 30000 /\ a[2] < 30000 /\ b[2] < 30000
    THEN a[1] * b[2] < b[1] * a[2]
    ELSE IF a[1] < 0 /\ b[1] >= 0 THEN TRUE
    ELSE IF a[1] >= 0 /\ b[1] < 0 THEN FALSE
    ELSE IF a[1] < 0 THEN FracLess(-b[1], b[2], -a[1], a[2])
    ELSE FracLess(a[1], a[2], b[1], b[2])

RAdd(a, b) == Rat(a[1] * b[2] + b[1] * a[2], a[2] * b[2])

RSub(a, b) == Rat(a[1] * b[2] - b[1] * a[2], a[2] * b[2])

RMul(a, b) == Rat(a[1] * b[1], a[2] * b[2])

\* a / b for b > 0
RDiv(a, b) == Rat(a[1] * b[2], a[2] * b[1])

\* Python's max(a, b): b only when b > a
RMax(a, b) == IF RLess(a, b) THEN b ELSE a

RMin(a, b) == IF RLess(b, a) THEN b ELSE a

\* numpy.clip(x, lo, hi)
RClip(x, lo, hi) == RMin(RMax(x, lo), hi)

\* floor of the square root of n >= 0
RECURSIVE ISqrt(_)
ISqrt(n) ==
    IF n < 2 THEN n
    ELSE LET r == 2 * ISqrt(n \div 4)
         IN  IF (r + 1) * (r + 1) <= n THEN r + 1 ELSE r

\* the square root of a non-negative integer: exact when it is a perfect
\* square, to three decimals otherwise
Sqrt(n) ==
    IF ISqrt(n) * ISqrt(n) = n THEN RInt(ISqrt(n))
    ELSE Rat(ISqrt(1000000 * n), 1000)

\* numpy.linalg.norm of an integer vector
Norm2(v) == Sqrt(v[1] * v[1] + v[2] * v[2])

\* dict.get(key, default)
Get(d, key, default) == IF key \in DOMAIN d THEN d[key] ELSE default

EmptyDict == [k \in {} |-> 0]

NoResult == <<>>

\* Python's None
None == [none |-> TRUE]

NoCall == [op |-> "none"]

(***************************************************************************)
(* Polygons: axis-aligned rectangles [xmin, xmax, ymin, ymax].             *)
(* contains(point) is shapely's: the point lies in the interior.           *)
(***************************************************************************)
\* a contains that counts the boundary of the polygon as inside
Contains_Closed(zone, p) ==
    /\ zone.xmin <= p[1] /\ p[1] <= zone.xmax
    /\ zone.ymin <= p[2] /\ p[2] <= zone.ymax

Contains(zone, p) ==
    /\ zone.xmin < p[1] /\ p[1] < zone.xmax
    /\ zone.ymin < p[2] /\ p[2] < zone.ymax

\* point.distance(zone.exterior) for a point inside the rectangle
DistanceToExterior(zone, p) ==
    Min2(Min2(p[1] - zone.xmin, zone.xmax - p[1]),
         Min2(p[2] - zone.ymin, zone.ymax - p[2]))

(***************************************************************************)
(* core/constraints.py                                                     *)
(***************************************************************************)
\* NumericConstraint.evaluate that checks the lower bound only
NumericConstraint_evaluate_NoUpper(c, s) ==
    LET value == Get(s, c.variable_name, RZero)
    IN  IF RLess(value, c.lower_bound)
        THEN <<FALSE, RSub(c.lower_bound, value)>>
        ELSE <<TRUE, RZero>>

NumericConstraint_evaluate(c, s) ==
    LET value == Get(s, c.variable_name, RZero)
    IN  IF RLess(value, c.lower_bound)
        THEN <<FALSE, RSub(c.lower_bound, value)>>
        ELSE IF RLess(c.upper_bound, value)
             THEN <<FALSE, RSub(value, c.upper_bound)>>
             ELSE <<TRUE, RZero>>

GeofenceConstraint_evaluate(c, s) ==
    IF "position" \notin DOMAIN s
    THEN <<TRUE, RZero>>
    ELSE IF \E i \in 1..Len(c.no_fly_zones) : Contains(c.no_fly_zones[i], s["position"])
         THEN <<FALSE, RInt(1)>>
         ELSE <<TRUE, RZero>>

ResourceConstraint_evaluate(c, s) ==
    LET current_amount == Get(s, c.resource_name, c.initial_amount)
    IN  IF RLess(current_amount, c.minimum_amount)
        THEN <<FALSE, RSub(c.minimum_amount, current_amount)>>
        ELSE <<TRUE, RZero>>

(***************************************************************************)
(* aircraft/constraints.py                                                 *)
(***************************************************************************)
\* the running max_violation after the first k waypoints of the path
RECURSIVE GeofenceMaxViolation(_, _, _)
GeofenceMaxViolation(zones, path, k) ==
    IF k = 0 THEN 0
    ELSE LET prev == GeofenceMaxViolation(zones, path, k - 1)
             RECURSIVE OverZones(_, _)
             OverZones(acc, j) ==
                 IF j > Len(zones) THEN acc
                 ELSE OverZones(
                        IF Contains(zones[j], path[k])
                        THEN Max2(acc, DistanceToExterior(zones[j], path[k]))
                        ELSE acc,
                        j + 1)
         IN  OverZones(prev, 1)

AircraftGeofenceConstraint_evaluate(c, s) ==
    LET path == Get(s, "path", <<>>)
    IN  IF path = <<>>
        THEN <<TRUE, RZero>>
        ELSE LET max_violation == GeofenceMaxViolation(c.no_fly_polygons, path, Len(path))
             IN  <<max_violation = 0, RInt(max_violation)>>

RECURSIVE AltitudeMaxViolation(_, _, _)
AltitudeMaxViolation(c, path, k) ==
    IF k = 0 THEN 0
    ELSE LET prev == AltitudeMaxViolation(c, path, k - 1)
             altitude == IF Len(path[k]) > 2 THEN path[k][3] ELSE 0
         IN  IF altitude < c.min_altitude
             THEN Max2(prev, c.min_altitude - altitude)
             ELSE IF altitude > c.max_altitude
                  THEN Max2(prev, altitude - c.max_altitude)
                  ELSE prev

AltitudeConstraint_evaluate(c, s) ==
    LET path == Get(s, "path", <<>>)
    IN  IF path = <<>>
        THEN <<TRUE, RZero>>
        ELSE LET max_violation == AltitudeMaxViolation(c, path, Len(path))
             IN  <<max_violation = 0, RInt(max_violation)>>

\* the shortest integer vector along v: the angle between two vectors does not
\* depend on their lengths
Direction(v) ==
    LET g == GCD(Abs(v[1]), Abs(v[2]))
    IN  IF g = 0 THEN v ELSE <<v[1] \div g, v[2] \div g>>

\* the angle in radians of a whole number of degrees, pi to three decimals
Radians(deg) == Rat(deg * 3142, 180000)

\* the bearing of the second segment from the x axis, taken for the angle
\* between the two segments
TurnAngleDeg_Bearing(w1, w2) ==
    LET v2  == Direction(w2)
        dot == v2[1]
        nn  == v2[1] * v2[1] + v2[2] * v2[2]
    IN  IF dot > 0
        THEN IF dot * dot = nn THEN 0
             ELSE IF 2 * dot * dot >= nn THEN 45 ELSE 90
        ELSE IF dot = 0 THEN 90
             ELSE IF 2 * dot * dot <= nn THEN 135 ELSE 180

\* arccos(clip(dot / (|v1| |v2|), -1, 1)) for integer vectors, in degrees: exact
\* when the angle is a multiple of 45 degrees and rounded up to the next
\* multiple otherwise
TurnAngleDeg(w1, w2) ==
    LET v1  == Direction(w1)
        v2  == Direction(w2)
        dot == v1[1] * v2[1] + v1[2] * v2[2]
        nn  == (v1[1] * v1[1] + v1[2] * v1[2]) * (v2[1] * v2[1] + v2[2] * v2[2])
    IN  IF dot > 0
        THEN IF dot * dot = nn THEN 0
             ELSE IF 2 * dot * dot >= nn THEN 45 ELSE 90
        ELSE IF dot = 0 THEN 90
             ELSE IF 2 * dot * dot <= nn THEN 135 ELSE 180

\* path[i][:2], 1-based
XY(w) == <<w[1], w[2]>>

VSub(a, b) == <<a[1] - b[1], a[2] - b[2]>>

\* the running max_violation after loop indices 0..k-1 (Python's i = k - 1)
RECURSIVE TurnRateMaxViolation(_, _, _, _)
TurnRateMaxViolation(c, path, times, k) ==
    IF k = 0 THEN RZero
    ELSE LET prev == TurnRateMaxViolation(c, path, times, k - 1)
             i  == k - 1
             v1 == VSub(XY(path[i + 2]), XY(path[i + 1]))
             v2 == VSub(XY(path[i + 3]), XY(path[i + 2]))
         IN  IF Norm2(v1) = RZero \/ Norm2(v2) = RZero
             THEN prev
             ELSE LET turn_angle == Radians(TurnAngleDeg(v1, v2))
                      time_available ==
                          IF times # <<>> /\ i + 1 < Len(times) /\ i < Len(times)
                          THEN RSub(times[i + 2], times[i + 1])
                          ELSE RDiv(Norm2(v1), c.cruise_speed)
                      required_turn_rate ==
                          RDiv(turn_angle, RMax(time_available, Rat(1, 10)))
                  IN  IF RLess(c.max_turn_rate, required_turn_rate)
                      THEN RMax(prev, RSub(required_turn_rate, c.max_turn_rate))
                      ELSE prev

TurnRateConstraint_evaluate(c, s) ==
    LET path  == Get(s, "path", <<>>)
        times == Get(s, "times", <<>>)
    IN  IF Len(path) < 2
        THEN <<TRUE, RZero>>
        ELSE LET max_violation ==
                     TurnRateMaxViolation(c, path, times, Max2(Len(path) - 2, 0))
             IN  <<max_violation = RZero, max_violation>>

\* EnergyConstraint.evaluate that reports the energy overdrawn, leaving the
\* reserve out of the magnitude
EnergyConstraint_evaluate_Overdrawn(c, s) ==
    LET total_energy == Get(s, "total_energy", RZero)
        energy_remaining == RSub(c.initial_energy, total_energy)
    IN  IF RLess(energy_remaining, c.min_reserve)
        THEN <<FALSE, RSub(RZero, energy_remaining)>>
        ELSE <<TRUE, RZero>>

\* EnergyConstraint.evaluate with the reserve boundary taken as a violation
EnergyConstraint_evaluate_Strict(c, s) ==
    LET total_energy == Get(s, "total_energy", RZero)
        energy_remaining == RSub(c.initial_energy, total_energy)
    IN  IF ~RLess(c.min_reserve, energy_remaining)
        THEN <<FALSE, RSub(c.min_reserve, energy_remaining)>>
        ELSE <<TRUE, RZero>>

EnergyConstraint_evaluate(c, s) ==
    LET total_energy == Get(s, "total_energy", RZero)
        energy_remaining == RSub(c.initial_energy, total_energy)
    IN  IF RLess(energy_remaining, c.min_reserve)
        THEN <<FALSE, RSub(c.min_reserve, energy_remaining)>>
        ELSE <<TRUE, RZero>>

(***************************************************************************)
(* spacecraft/constraints.py.  A schedule item is a dict with the keys     *)
(* type, start_time, end_time and, optionally, target_id, target_position  *)
(* and observation_ids.                                                    *)
(***************************************************************************)
DefaultTargetPosition == <<0, 0, 1>>

\* degrees(arccos(clip(dot(pos1, pos2), -1, 1))) for integer vectors
SlewAngleDeg(pos1, pos2) ==
    LET dot == pos1[1] * pos2[1] + pos1[2] * pos2[2] + pos1[3] * pos2[3]
    IN  IF dot >= 1 THEN 0 ELSE IF dot = 0 THEN 90 ELSE 180

\* the running max_violation after loop indices 0..k-1
RECURSIVE SlewMaxViolation(_, _, _)
SlewMaxViolation(c, schedule, k) ==
    IF k = 0 THEN RZero
    ELSE LET prev      == SlewMaxViolation(c, schedule, k - 1)
             current   == schedule[k]
             next_item == schedule[k + 1]
         IN  IF Get(current, "type", "") # "observation"
                \/ Get(next_item, "type", "") # "observation"
             THEN prev
             ELSE LET pos1 == Get(current, "target_position", DefaultTargetPosition)
                      pos2 == Get(next_item, "target_position", DefaultTargetPosition)
                      slew_angle_deg == SlewAngleDeg(pos1, pos2)
                      time_available == next_item["start_time"] - current["end_time"]
                  IN  IF time_available > 0
                      THEN LET required_rate == Rat(slew_angle_deg, time_available)
                           IN  IF RLess(c.max_slew_rate, required_rate)
                               THEN RMax(prev, RSub(required_rate, c.max_slew_rate))
                               ELSE prev
                      ELSE prev

PointingSlewConstraint_evaluate(c, s) ==
    LET schedule == Get(s, "schedule", <<>>)
    IN  IF Len(schedule) < 2
        THEN <<TRUE, RZero>>
        ELSE LET max_violation == SlewMaxViolation(c, schedule, Len(schedule) - 1)
             IN  <<max_violation = RZero, max_violation>>

ImagingPower == 50
TransmitPower == 80
IdlePower == 20
SecondsPerHour == 3600

\* battery_level without the np.clip to [0, 1]
RECURSIVE BatteryLevel_Unclipped(_, _, _)
BatteryLevel_Unclipped(c, schedule, k) ==
    IF k = 0 THEN RInt(1)
    ELSE LET item == schedule[k]
             duration == Rat(item["end_time"] - item["start_time"], SecondsPerHour)
             power_consumption ==
                 IF item["type"] = "observation" THEN ImagingPower
                 ELSE IF item["type"] = "downlink" THEN TransmitPower
                 ELSE IdlePower
             net_power == RSub(RInt(power_consumption), RMul(c.solar_power, Rat(1, 2)))
             energy_change == RMul(net_power, duration)
         IN  RSub(BatteryLevel_Unclipped(c, schedule, k - 1),
                  RDiv(energy_change, c.battery_capacity))

\* battery_level after the first k items of the schedule
RECURSIVE BatteryLevel(_, _, _)
BatteryLevel(c, schedule, k) ==
    IF k = 0 THEN RInt(1)
    ELSE LET item == schedule[k]
             duration == Rat(item["end_time"] - item["start_time"], SecondsPerHour)
             power_consumption ==
                 IF item["type"] = "observation" THEN ImagingPower
                 ELSE IF item["type"] = "downlink" THEN TransmitPower
                 ELSE IdlePower
             net_power == RSub(RInt(power_consumption), RMul(c.solar_power, Rat(1, 2)))
             energy_change == RMul(net_power, duration)
         IN  RClip(RSub(BatteryLevel(c, schedule, k - 1),
                        RDiv(energy_change, c.battery_capacity)),
                   RZero, RInt(1))

\* min_level_reached after the first k items of the schedule
RECURSIVE MinLevelReached(_, _, _)
MinLevelReached(c, schedule, k) ==
    IF k = 0 THEN RInt(1)
    ELSE RMin(MinLevelReached(c, schedule, k - 1), BatteryLevel(c, schedule, k))

PowerBudgetConstraint_evaluate(c, s) ==
    LET schedule == Get(s, "schedule", <<>>)
    IN  IF schedule = <<>>
        THEN <<TRUE, RZero>>
        ELSE LET min_level_reached == MinLevelReached(c, schedule, Len(schedule))
             IN  IF RLess(min_level_reached, c.min_battery_level)
                 THEN <<FALSE, RSub(c.min_battery_level, min_level_reached)>>
                 ELSE <<TRUE, RZero>>

\* the loop state <<orbit_start, ops_in_orbit, max_violation>> after k items
RECURSIVE DutyCycleLoop(_, _, _)
DutyCycleLoop(c, schedule, k) ==
    IF k = 0 THEN <<schedule[1]["start_time"], 0, 0>>
    ELSE LET prev == DutyCycleLoop(c, schedule, k - 1)
             item == schedule[k]
             newOrbit == RLess(c.orbital_period, RInt(item["start_time"] - prev[1]))
             orbit_start == IF newOrbit THEN item["start_time"] ELSE prev[1]
             ops0 == IF newOrbit THEN 0 ELSE prev[2]
         IN  IF item["type"] \in {"observation", "downlink"}
             THEN <<orbit_start, ops0 + 1,
                    IF ops0 + 1 > c.max_ops_per_orbit
                    THEN Max2(prev[3], ops0 + 1 - c.max_ops_per_orbit)
                    ELSE prev[3]>>
             ELSE <<orbit_start, ops0, prev[3]>>

DutyCycleConstraint_evaluate(c, s) ==
    LET schedule == Get(s, "schedule", <<>>)
    IN  IF schedule = <<>>
        THEN <<TRUE, RZero>>
        ELSE LET max_violation == DutyCycleLoop(c, schedule, Len(schedule))[3]
             IN  <<max_violation = 0, RInt(max_violation)>>

\* the keys of the observations dict: target_id, or start_time when there is none
ObservationKeys(schedule) ==
    { IF "target_id" \in DOMAIN schedule[i]
      THEN <<"target_id", schedule[i]["target_id"]>>
      ELSE <<"start_time", schedule[i]["start_time"]>> :
        i \in { j \in 1..Len(schedule) : schedule[j]["type"] = "observation" } }

\* the downlinked set: every id listed by a downlink item
Downlinked(schedule) ==
    UNION { { Get(schedule[i], "observation_ids", <<>>)[n] :
                n \in 1..Len(Get(schedule[i], "observation_ids", <<>>)) } :
            i \in { j \in 1..Len(schedule) : schedule[j]["type"] = "downlink" } }

DownlinkConstraint_evaluate(c, s) ==
    LET schedule == Get(s, "schedule", <<>>)
        not_downlinked ==
            Cardinality(ObservationKeys(schedule)) - Cardinality(Downlinked(schedule))
    IN  IF not_downlinked > 0
        THEN <<FALSE, RInt(not_downlinked)>>
        ELSE <<TRUE, RZero>>

(***************************************************************************)
(* Dynamic dispatch of constraint.evaluate(state)                          *)
(***************************************************************************)
Evaluate(c, s) ==
    CASE c.cls = "NumericConstraint"          -> NumericConstraint_evaluate(c, s)
      [] c.cls = "GeofenceConstraint"         -> GeofenceConstraint_evaluate(c, s)
      [] c.cls = "ResourceConstraint"         -> ResourceConstraint_evaluate(c, s)
      [] c.cls = "AircraftGeofenceConstraint" -> AircraftGeofenceConstraint_evaluate(c, s)
      [] c.cls = "AltitudeConstraint"         -> AltitudeConstraint_evaluate(c, s)
      [] c.cls = "TurnRateConstraint"         -> TurnRateConstraint_evaluate(c, s)
      [] c.cls = "EnergyConstraint"           -> EnergyConstraint_evaluate(c, s)
      [] c.cls = "PointingSlewConstraint"     -> PointingSlewConstraint_evaluate(c, s)
      [] c.cls = "PowerBudgetConstraint"      -> PowerBudgetConstraint_evaluate(c, s)
      [] c.cls = "DutyCycleConstraint"        -> DutyCycleConstraint_evaluate(c, s)
      [] c.cls = "DownlinkConstraint"         -> DownlinkConstraint_evaluate(c, s)

(***************************************************************************)
(* Inputs of SpecConstraint: constraint objects and state bags             *)
(***************************************************************************)
\* every sequence over S of length at most n
SeqsUpTo(S, n) == UNION { [1..k -> S] : k \in 0..n }

Kinds == {"hard", "soft"}

XYPoints == { <<0, 0>>, <<1, 0>>, <<2, 0>>, <<1, 1>> }

\* the positions and waypoints given to the geofence constraints: XYPoints and
\* two points on either side of the zone [0, 2] x [-1, 1]
GeofencePoints == XYPoints \cup { <<-1, 0>>, <<3, 0>> }

Zones ==
    { <<>>,
      << [xmin |-> 0, xmax |-> 2, ymin |-> -1, ymax |-> 1] >>,
      << [xmin |-> -2, xmax |-> 4, ymin |-> -2, ymax |-> 4],
         [xmin |-> 0, xmax |-> 2, ymin |-> 0, ymax |-> 2] >> }

NumericConstraints ==
    [cls : {"NumericConstraint"}, name : {"bound"}, variable_name : {"value"},
     lower_bound : {RInt(-1), RInt(1)}, upper_bound : {RInt(1), RInt(2)},
     constraint_type : Kinds]

NumericStates ==
    {EmptyDict, [other |-> RInt(5)]} \cup
    { [value |-> v] : v \in { RInt(-2), RInt(-1), RZero, Rat(1, 2), RInt(1), RInt(2), RInt(3) } }

GeofenceConstraints ==
    [cls : {"GeofenceConstraint"}, name : {"zone"}, no_fly_zones : Zones,
     constraint_type : Kinds]

GeofenceStates ==
    {EmptyDict} \cup { [position |-> p] : p \in GeofencePoints }

ResourceConstraints ==
    [cls : {"ResourceConstraint"}, name : {"battery"}, resource_name : {"battery_level"},
     initial_amount : {RZero, RInt(2)}, minimum_amount : {RZero, RInt(1), RInt(3)},
     constraint_type : Kinds]

ResourceStates ==
    {EmptyDict} \cup { [battery_level |-> RInt(v)] : v \in 0..3 }

AircraftGeofenceConstraints ==
    [cls : {"AircraftGeofenceConstraint"}, name : {"geofence"}, no_fly_polygons : Zones,
     constraint_type : Kinds]

PathStates ==
    {EmptyDict} \cup { [path |-> p] : p \in SeqsUpTo(GeofencePoints, MaxPathLen) }

AltitudeConstraints ==
    [cls : {"AltitudeConstraint"}, name : {"altitude_limits"},
     min_altitude : {1}, max_altitude : {2, 0}, constraint_type : Kinds]

AltitudeStates ==
    {EmptyDict} \cup
    { [path |-> p] :
        p \in SeqsUpTo({ <<0, 0>>, <<0, 0, 1>>, <<1, 0, 2>>, <<1, 0, 4>> }, MaxPathLen) }

TurnRateConstraints ==
    [cls : {"TurnRateConstraint"}, name : {"turn_rate"},
     max_turn_rate : {Rat(1, 1000), Rat(1, 2), RInt(2)}, cruise_speed : {RInt(1), RInt(20)},
     constraint_type : Kinds]

TurnRateStates ==
    {EmptyDict} \cup
    { [path |-> p] : p \in SeqsUpTo(XYPoints, MaxPathLen) } \cup
    { [path |-> p, times |-> t] :
        p \in SeqsUpTo(XYPoints, MaxPathLen) \ {<<>>},
        t \in { <<>>, <<RZero>>, <<RZero, RZero, RZero>>,
                <<RZero, RInt(1), RInt(2)>>, <<RZero, RInt(5), RInt(10)>> } }

EnergyConstraints ==
    [cls : {"EnergyConstraint"}, name : {"energy_budget"},
     initial_energy : {RZero, RInt(10)}, min_reserve : {RZero, RInt(1)},
     constraint_type : Kinds]

EnergyStates ==
    {EmptyDict} \cup { [total_energy |-> RInt(e)] : e \in {0, 8, 9, 10, 12} }

\* a schedule item: the keys every item has, merged with the optional ones
Item(type, start, duration, optional) ==
    [type |-> type, start_time |-> start, end_time |-> start + duration] @@ optional

SlewItems ==
    { Item("observation", st, 30, opt) :
        st \in {0, 100},
        opt \in {EmptyDict} \cup
                { [target_position |-> p] : p \in { <<1, 0, 0>>, <<0, 0, -1>> } } }
    \cup { Item("downlink", st, 60, EmptyDict) : st \in {0, 100} }

PointingSlewConstraints ==
    [cls : {"PointingSlewConstraint"}, name : {"slew_rate"}, max_slew_rate : {RInt(1), RInt(2)},
     constraint_type : Kinds]

SlewStates ==
    {EmptyDict} \cup { [schedule |-> sc] : sc \in SeqsUpTo(SlewItems, MaxSchedLen) }

PowerItems ==
    { Item(ty, 0, d, EmptyDict) :
        ty \in {"observation", "downlink", "idle"}, d \in {30, 3600, 36000} }

PowerBudgetConstraints ==
    [cls : {"PowerBudgetConstraint"}, name : {"power_budget"},
     battery_capacity : {RInt(100)}, solar_power : {RInt(30), RInt(200)},
     min_battery_level : {Rat(1, 5)}, constraint_type : Kinds]

PowerStates ==
    {EmptyDict} \cup { [schedule |-> sc] : sc \in SeqsUpTo(PowerItems, MaxSchedLen) }

DutyItems ==
    { Item(ty, st, 30, EmptyDict) :
        ty \in {"observation", "downlink", "idle"}, st \in {0, 90, 110} }

DutyCycleConstraints ==
    [cls : {"DutyCycleConstraint"}, name : {"duty_cycle"},
     max_ops_per_orbit : {1, 2}, orbital_period : {RInt(100)}, constraint_type : Kinds]

DutyStates ==
    {EmptyDict} \cup { [schedule |-> sc] : sc \in SeqsUpTo(DutyItems, MaxSchedLen + 1) }

DownlinkItems ==
    { Item("observation", st, 30, opt) :
        st \in {0, 60},
        opt \in {EmptyDict} \cup { [target_id |-> t] : t \in {"A", "B"} } }
    \cup { Item("downlink", 200, 60, opt) :
             opt \in {EmptyDict} \cup
                     { [observation_ids |-> ids] : ids \in { <<>>, <<"A">>, <<"A", "C">> } } }

DownlinkConstraints ==
    [cls : {"DownlinkConstraint"}, name : {"downlink_requirement"},
     max_storage_time : {RInt(86400)}, violation_penalty : {RInt(10)},
     constraint_type : Kinds]

DownlinkStates ==
    {EmptyDict} \cup { [schedule |-> sc] : sc \in SeqsUpTo(DownlinkItems, MaxSchedLen) }

(***************************************************************************)
(* SpecConstraint: one constraint object evaluated on one state bag        *)
(***************************************************************************)
IdleConstraintVars ==
    /\ constraint = EmptyDict
    /\ state = EmptyDict
    /\ result = NoResult

IdleObjectiveVars ==
    /\ objective = EmptyDict
    /\ objSolution = EmptyDict
    /\ objValue = NoResult

IdlePlannerVars ==
    /\ kind = "none"
    /\ config = EmptyDict
    /\ constraints = <<>>
    /\ objectives = <<>>
    /\ solution = None
    /\ returned = None
    /\ call = NoCall

IdleWindowVars ==
    /\ fn = "none"
    /\ locations = <<>>
    /\ mission_duration_days = 0
    /\ loc = 0
    /\ current_time = 0
    /\ in_window = FALSE
    /\ window_start = None
    /\ location_windows = <<>>
    /\ windows = EmptyDict
    /\ sampled = EmptyDict

IdleSimVars ==
    /\ sim_pc = "none"
    /\ sim_config = EmptyDict
    /\ all_states = <<>>
    /\ segment = 0
    /\ segment_states = <<>>
    /\ iteration = 0
    /\ current_state = None
    /\ sim_result = None

IdleMCVars ==
    /\ scenario = EmptyDict
    /\ np_random = 0
    /\ trial_pc = EmptyDict
    /\ trial_wind = EmptyDict
    /\ trial_solution = EmptyDict
    /\ trial_valid = EmptyDict
    /\ results = <<>>

IdleWindVars ==
    /\ wind_model = EmptyDict
    /\ caller_position = <<>>
    /\ wind_calls = <<>>

IdlePathVars ==
    /\ path_pc = "none"
    /\ path_config = EmptyDict
    /\ path_arg = <<>>
    /\ path_i = 0
    /\ path_state = None
    /\ path_state_created = None
    /\ path_times = <<>>
    /\ path_total_energy = RZero

IdleExtraVars == IdleWindVars /\ IdlePathVars

InitWith(C, S) ==
    \E c \in C : \E s \in S :
        /\ constraint = c
        /\ state = s
        /\ result = NoResult

InitConstraint ==
    \/ InitWith(NumericConstraints, NumericStates)
    \/ InitWith(GeofenceConstraints, GeofenceStates)
    \/ InitWith(ResourceConstraints, ResourceStates)
    \/ InitWith(AircraftGeofenceConstraints, PathStates)
    \/ InitWith(AltitudeConstraints, AltitudeStates)
    \/ InitWith(TurnRateConstraints, TurnRateStates)
    \/ InitWith(EnergyConstraints, EnergyStates)
    \/ InitWith(PointingSlewConstraints, SlewStates)
    \/ InitWith(PowerBudgetConstraints, PowerStates)
    \/ InitWith(DutyCycleConstraints, DutyStates)
    \/ InitWith(DownlinkConstraints, DownlinkStates)

InitSpecConstraint ==
    /\ InitConstraint
    /\ IdleObjectiveVars
    /\ IdlePlannerVars
    /\ IdleWindowVars
    /\ IdleSimVars
    /\ IdleMCVars
    /\ IdleExtraVars

\* result = constraint.evaluate(state), one action per constraint class
EvaluateNumeric ==
    /\ constraint.cls = "NumericConstraint"
    /\ result = NoResult
    /\ result' = NumericConstraint_evaluate(constraint, state)
    /\ UNCHANGED <<constraint, state, ovars, pvars, wvars, svars, mvars, xvars>>

EvaluateGeofence ==
    /\ constraint.cls = "GeofenceConstraint"
    /\ result = NoResult
    /\ result' = GeofenceConstraint_evaluate(constraint, state)
    /\ UNCHANGED <<constraint, state, ovars, pvars, wvars, svars, mvars, xvars>>

EvaluateResource ==
    /\ constraint.cls = "ResourceConstraint"
    /\ result = NoResult
    /\ result' = ResourceConstraint_evaluate(constraint, state)
    /\ UNCHANGED <<constraint, state, ovars, pvars, wvars, svars, mvars, xvars>>

EvaluateAircraftGeofence ==
    /\ constraint.cls = "AircraftGeofenceConstraint"
    /\ result = NoResult
    /\ result' = AircraftGeofenceConstraint_evaluate(constraint, state)
    /\ UNCHANGED <<constraint, state, ovars, pvars, wvars, svars, mvars, xvars>>

EvaluateAltitude ==
    /\ constraint.cls = "AltitudeConstraint"
    /\ result = NoResult
    /\ result' = AltitudeConstraint_evaluate(constraint, state)
    /\ UNCHANGED <<constraint, state, ovars, pvars, wvars, svars, mvars, xvars>>

EvaluateTurnRate ==
    /\ constraint.cls = "TurnRateConstraint"
    /\ result = NoResult
    /\ result' = TurnRateConstraint_evaluate(constraint, state)
    /\ UNCHANGED <<constraint, state, ovars, pvars, wvars, svars, mvars, xvars>>

EvaluateEnergy ==
    /\ constraint.cls = "EnergyConstraint"
    /\ result = NoResult
    /\ result' = EnergyConstraint_evaluate(constraint, state)
    /\ UNCHANGED <<constraint, state, ovars, pvars, wvars, svars, mvars, xvars>>

EvaluatePointingSlew ==
    /\ constraint.cls = "PointingSlewConstraint"
    /\ result = NoResult
    /\ result' = PointingSlewConstraint_evaluate(constraint, state)
    /\ UNCHANGED <<constraint, state, ovars, pvars, wvars, svars, mvars, xvars>>

EvaluatePowerBudget ==
    /\ constraint.cls = "PowerBudgetConstraint"
    /\ result = NoResult
    /\ result' = PowerBudgetConstraint_evaluate(constraint, state)
    /\ UNCHANGED <<constraint, state, ovars, pvars, wvars, svars, mvars, xvars>>

EvaluateDutyCycle ==
    /\ constraint.cls = "DutyCycleConstraint"
    /\ result = NoResult
    /\ result' = DutyCycleConstraint_evaluate(constraint, state)
    /\ UNCHANGED <<constraint, state, ovars, pvars, wvars, svars, mvars, xvars>>

EvaluateDownlink ==
    /\ constraint.cls = "DownlinkConstraint"
    /\ result = NoResult
    /\ result' = DownlinkConstraint_evaluate(constraint, state)
    /\ UNCHANGED <<constraint, state, ovars, pvars, wvars, svars, mvars, xvars>>

NextConstraint ==
    \/ EvaluateNumeric
    \/ EvaluateGeofence
    \/ EvaluateResource
    \/ EvaluateAircraftGeofence
    \/ EvaluateAltitude
    \/ EvaluateTurnRate
    \/ EvaluateEnergy
    \/ EvaluatePointingSlew
    \/ EvaluatePowerBudget
    \/ EvaluateDutyCycle
    \/ EvaluateDownlink

SpecConstraint == InitSpecConstraint /\ [][NextConstraint]_vars

\* C2: for each of the eleven constraint classes and every state bag, evaluate
\* returns (satisfied, magnitude) with magnitude >= 0, and magnitude = 0 exactly
\* when satisfied is true
C2_MagnitudeZeroIffSatisfied ==
    result # NoResult =>
        /\ result[1] \in BOOLEAN
        /\ ~RLess(result[2], RZero)
        /\ (result[2] = RZero <=> result[1])

\* an energy budget evaluated exactly at its reserve, and a violated one
C2_Witness ==
    /\ result # NoResult
    /\ constraint.cls = "EnergyConstraint"
    /\ "total_energy" \in DOMAIN state
    /\ RSub(constraint.initial_energy, state["total_energy"]) = constraint.min_reserve
    /\ result = <<TRUE, RZero>>

\* the field a constraint checks is absent from the state bag, or empty
MissingCheckedField(c, s) ==
    CASE c.cls = "NumericConstraint"  -> c.variable_name \notin DOMAIN s
      [] c.cls = "ResourceConstraint" -> c.resource_name \notin DOMAIN s
      [] c.cls = "EnergyConstraint"   -> "total_energy" \notin DOMAIN s
      [] c.cls = "GeofenceConstraint" -> "position" \notin DOMAIN s
      [] c.cls \in {"AircraftGeofenceConstraint", "AltitudeConstraint",
                    "TurnRateConstraint"} -> Get(s, "path", <<>>) = <<>>
      [] OTHER -> Get(s, "schedule", <<>>) = <<>>

\* C3: a constraint evaluated on a state whose checked field is missing or empty
\* returns (satisfied = true, magnitude = 0), whatever its configuration
C3_MissingFieldIsSatisfied ==
    (result # NoResult /\ MissingCheckedField(constraint, state)) =>
        result = <<TRUE, RZero>>

\* the horizontal segments into and out of the k-th waypoint of a path
SegIn(p, k) == VSub(XY(p[k]), XY(p[k - 1]))
SegOut(p, k) == VSub(XY(p[k + 1]), XY(p[k]))

\* every three consecutive waypoints lie on one line in the horizontal plane
Collinear(p) ==
    \A k \in 2..(Len(p) - 1) :
        SegIn(p, k)[1] * SegOut(p, k)[2] = SegIn(p, k)[2] * SegOut(p, k)[1]

\* the path turns back at none of its waypoints
NoReversal(p) ==
    \A k \in 2..(Len(p) - 1) :
        SegIn(p, k)[1] * SegOut(p, k)[1] + SegIn(p, k)[2] * SegOut(p, k)[2] >= 0

\* C17 as stated: on every path whose consecutive waypoint triples are
\* collinear in the horizontal plane, TurnRateConstraint.evaluate returns
\* (true, 0), whatever max_turn_rate, cruise speed and times.
C17_CollinearAlwaysSatisfied ==
    (result # NoResult /\ constraint.cls = "TurnRateConstraint"
       /\ Collinear(Get(state, "path", <<>>))) =>
        result = <<TRUE, RZero>>

\* C17: on every path whose consecutive waypoint triples are collinear in
\* the horizontal plane and which turns back at none of its waypoints,
\* TurnRateConstraint.evaluate returns (true, 0), whatever positive
\* max_turn_rate, cruise speed and times.
C17_StraightAlwaysSatisfied ==
    (result # NoResult /\ constraint.cls = "TurnRateConstraint"
       /\ Collinear(Get(state, "path", <<>>))
       /\ NoReversal(Get(state, "path", <<>>))) =>
        result = <<TRUE, RZero>>

\* three distinct waypoints in a straight line towards -x, with times that
\* leave no time for a turn, under the smallest max_turn_rate
C17_Witness ==
    /\ result = <<TRUE, RZero>>
    /\ constraint.cls = "TurnRateConstraint"
    /\ constraint.max_turn_rate = Rat(1, 1000)
    /\ "path" \in DOMAIN state
    /\ state["path"] = << <<2, 0>>, <<1, 0>>, <<0, 0>> >>
    /\ "times" \in DOMAIN state
    /\ state["times"] = <<RZero, RZero, RZero>>

\* the operations (observations and downlinks) of a schedule that start in
\* the span of one orbital period beginning at time t
OpsInSpan(c, schedule, t) ==
    { i \in 1..Len(schedule) :
        /\ schedule[i]["type"] \in {"observation", "downlink"}
        /\ schedule[i]["start_time"] >= t
        /\ ~RLess(c.orbital_period, RInt(schedule[i]["start_time"] - t)) }

\* the largest number of operations in a span of one orbital period: it is
\* reached by a span that begins with an operation
MaxOpsInSpan(c, schedule) ==
    LET counts == {0} \cup
                  { Cardinality(OpsInSpan(c, schedule, schedule[k]["start_time"])) :
                      k \in 1..Len(schedule) }
    IN  CHOOSE n \in counts : \A m \in counts : m <= n

\* the schedule is in the order solve() returns it
AscendingStart(schedule) ==
    \A i, j \in 1..Len(schedule) :
        i < j => schedule[i]["start_time"] <= schedule[j]["start_time"]

\* C18: on a schedule ordered by start_time, DutyCycleConstraint.evaluate is
\* satisfied if and only if no span of one orbital period contains more than
\* max_ops_per_orbit observation or downlink activities of the schedule, and
\* when violated its magnitude is the number of operations in such a span in
\* excess of the cap.
C18_DutyCycleOverEverySpan ==
    (result # NoResult /\ constraint.cls = "DutyCycleConstraint"
       /\ AscendingStart(Get(state, "schedule", <<>>))) =>
        LET schedule == Get(state, "schedule", <<>>)
            most == MaxOpsInSpan(constraint, schedule)
        IN  /\ result[1] <=> (most <= constraint.max_ops_per_orbit)
            /\ ~result[1] => result[2] = RInt(most - constraint.max_ops_per_orbit)

\* the id under which the downlink constraint knows an observation
ObservationId(item) ==
    IF "target_id" \in DOMAIN item
    THEN <<"target_id", item["target_id"]>>
    ELSE <<"start_time", item["start_time"]>>

\* the observation activities of a schedule that no downlink activity lists
\* in its observation_ids
Unlinked(schedule) ==
    { i \in 1..Len(schedule) :
        /\ schedule[i]["type"] = "observation"
        /\ \A j \in 1..Len(schedule) :
             schedule[j]["type"] = "downlink" =>
                \A n \in 1..Len(Get(schedule[j], "observation_ids", <<>>)) :
                    <<"target_id", Get(schedule[j], "observation_ids", <<>>)[n]>>
                        # ObservationId(schedule[i]) }

\* C19: DownlinkConstraint.evaluate returns as magnitude the number of
\* observation activities of the schedule that no downlink activity lists in
\* its observation_ids, and is satisfied if and only if that number is zero.
C19_MagnitudeCountsUnlinkedObservations ==
    (result # NoResult /\ constraint.cls = "DownlinkConstraint") =>
        LET unlinked == Cardinality(Unlinked(Get(state, "schedule", <<>>)))
        IN  /\ result[1] <=> (unlinked = 0)
            /\ result[2] = RInt(unlinked)

\* the battery fractions after 0, 1, .. activities of a schedule
LevelsReached(c, schedule) ==
    { BatteryLevel(c, schedule, k) : k \in 0..Len(schedule) }

\* the lowest of a set of fractions
Lowest(S) == CHOOSE x \in S : \A y \in S : ~RLess(y, x)

\* C20: PowerBudgetConstraint.evaluate follows the battery fraction activity
\* by activity from 1.0; the fraction lies within [0, 1] after every
\* activity; the constraint is violated exactly when the lowest fraction
\* reached is below min_battery_level, and the magnitude is then
\* min_battery_level minus that lowest fraction (0 otherwise).
C20_PowerBudgetTracksLowestFraction ==
    (result # NoResult /\ constraint.cls = "PowerBudgetConstraint") =>
        LET schedule == Get(state, "schedule", <<>>)
            levels == LevelsReached(constraint, schedule)
            lowest == Lowest(levels)
        IN  /\ RInt(1) \in levels
            /\ \A x \in levels : ~RLess(x, RZero) /\ ~RLess(RInt(1), x)
            /\ result[1] <=> ~RLess(lowest, constraint.min_battery_level)
            /\ result[2] = IF result[1] THEN RZero
                           ELSE RSub(constraint.min_battery_level, lowest)

\* ten hours idle and an hour of imaging on little solar power leave 15% of
\* the battery, a shortfall of 5%
C20_Witness ==
    /\ result = <<FALSE, Rat(1, 20)>>
    /\ constraint.cls = "PowerBudgetConstraint"
    /\ constraint.solar_power = RInt(30)
    /\ Len(state["schedule"]) = 2
    /\ BatteryLevel(constraint, state["schedule"], 1) = Rat(1, 2)

\* an energy constraint evaluated on a state that carries total_energy
EnergyEvaluated ==
    /\ result # NoResult
    /\ constraint.cls = "EnergyConstraint"
    /\ "total_energy" \in DOMAIN state

EnergyLeft == RSub(constraint.initial_energy, state["total_energy"])

\* C22: EnergyConstraint.evaluate is satisfied exactly when initial_energy -
\* total_energy >= min_reserve; when violated its magnitude is min_reserve -
\* (initial_energy - total_energy)
C22_EnergySatisfiedIffReserveLeft ==
    EnergyEvaluated =>
        /\ result[1] <=> ~RLess(EnergyLeft, constraint.min_reserve)
        /\ ~result[1] => result[2] = RSub(constraint.min_reserve, EnergyLeft)

\* a mission that used 12 of 10 with a reserve of 1: short by 3
C22_Witness ==
    /\ EnergyEvaluated
    /\ constraint.initial_energy = RInt(10)
    /\ constraint.min_reserve = RInt(1)
    /\ state["total_energy"] = RInt(12)
    /\ result = <<FALSE, RInt(3)>>

\* a numeric constraint evaluated on a state that carries its variable
NumericEvaluated ==
    /\ result # NoResult
    /\ constraint.cls = "NumericConstraint"
    /\ constraint.variable_name \in DOMAIN state

NumericValue == state[constraint.variable_name]

\* C23: NumericConstraint.evaluate is satisfied exactly when lower_bound <=
\* value <= upper_bound; when violated its magnitude is lower_bound - value
\* below the range and value - upper_bound above it
C23_NumericSatisfiedIffInRange ==
    NumericEvaluated =>
        /\ result[1] <=> (/\ ~RLess(NumericValue, constraint.lower_bound)
                          /\ ~RLess(constraint.upper_bound, NumericValue))
        /\ RLess(NumericValue, constraint.lower_bound) =>
               result[2] = RSub(constraint.lower_bound, NumericValue)
        /\ (/\ ~RLess(NumericValue, constraint.lower_bound)
            /\ RLess(constraint.upper_bound, NumericValue)) =>
               result[2] = RSub(NumericValue, constraint.upper_bound)

\* a value of 3 against the range [-1, 2]: above it by 1
C23_Witness ==
    /\ NumericEvaluated
    /\ constraint.lower_bound = RInt(-1)
    /\ constraint.upper_bound = RInt(2)
    /\ NumericValue = RInt(3)
    /\ result = <<FALSE, RInt(1)>>

\* a geofence constraint of either class has been evaluated
GeofenceEvaluated ==
    /\ result # NoResult
    /\ constraint.cls \in {"GeofenceConstraint", "AircraftGeofenceConstraint"}

ForbiddenPolygons ==
    IF constraint.cls = "GeofenceConstraint"
    THEN constraint.no_fly_zones
    ELSE constraint.no_fly_polygons

\* the points the state gives: its position, or the waypoints of its path
PointsOfState ==
    IF constraint.cls = "GeofenceConstraint"
    THEN (IF "position" \in DOMAIN state THEN { state["position"] } ELSE {})
    ELSE { Get(state, "path", <<>>)[k] : k \in 1..Len(Get(state, "path", <<>>)) }

\* the point lies in the interior of the rectangle
InsidePolygon(zone, p) ==
    /\ p[1] - zone.xmin > 0 /\ zone.xmax - p[1] > 0
    /\ p[2] - zone.ymin > 0 /\ zone.ymax - p[2] > 0

SomePointInside ==
    \E p \in PointsOfState :
        \E i \in 1..Len(ForbiddenPolygons) : InsidePolygon(ForbiddenPolygons[i], p)

AxisInterval(a, d, lo, hi) ==
    IF d = 0
    THEN IF lo < a /\ a < hi THEN <<RInt(-1), RInt(2)>> ELSE <<RInt(1), RZero>>
    ELSE IF d > 0
         THEN <<Rat(lo - a, d), Rat(hi - a, d)>>
         ELSE <<Rat(a - hi, -d), Rat(a - lo, -d)>>

\* the straight segment from a to b has a point in the interior of the zone
SegmentEnters(zone, a, b) ==
    LET ix == AxisInterval(a[1], b[1] - a[1], zone.xmin, zone.xmax)
        iy == AxisInterval(a[2], b[2] - a[2], zone.ymin, zone.ymax)
        lower == RMax(ix[1], iy[1])
        upper == RMin(ix[2], iy[2])
    IN  /\ RLess(lower, upper)
        /\ RLess(lower, RInt(1))
        /\ RLess(RZero, upper)

\* some segment between consecutive waypoints enters a no-fly polygon
SomeSegmentEnters(path, zones) ==
    \E k \in 1..(Len(path) - 1) :
        \E i \in 1..Len(zones) : SegmentEnters(zones[i], path[k], path[k + 1])

\* the zone lies strictly between the two waypoints: both are outside it and
\* not on its boundary
OutsidePolygon(zone, p) ==
    \/ p[1] < zone.xmin \/ p[1] > zone.xmax
    \/ p[2] < zone.ymin \/ p[2] > zone.ymax

\* C25: AircraftGeofenceConstraint.evaluate reports a violation whenever a
\* waypoint of the path, or a straight segment between two consecutive
\* waypoints, enters a no-fly polygon, a segment that crosses a zone with both
\* end waypoints outside it included
C25_SegmentCrossingReported ==
    (/\ result # NoResult
     /\ constraint.cls = "AircraftGeofenceConstraint"
     /\ \/ SomePointInside
        \/ SomeSegmentEnters(Get(state, "path", <<>>), constraint.no_fly_polygons))
    => ~result[1]

\* the case the code misses: two waypoints outside the zone, the segment
\* between them through it, and evaluate satisfied
C25_CrossingUnreported ==
    /\ result = <<TRUE, RZero>>
    /\ constraint.cls = "AircraftGeofenceConstraint"
    /\ Len(constraint.no_fly_polygons) = 1
    /\ state = [path |-> << <<-1, 0>>, <<3, 0>> >>]
    /\ OutsidePolygon(constraint.no_fly_polygons[1], <<-1, 0>>)
    /\ OutsidePolygon(constraint.no_fly_polygons[1], <<3, 0>>)
    /\ SegmentEnters(constraint.no_fly_polygons[1], <<-1, 0>>, <<3, 0>>)

(***************************************************************************)
(* core/objectives.py                                                      *)
(***************************************************************************)
MinimizeTimeObjective(name) ==
    [cls |-> "MinimizeTimeObjective", name |-> name, objective_type |-> "minimize"]

MinimizeEnergyObjective(name) ==
    [cls |-> "MinimizeEnergyObjective", name |-> name, objective_type |-> "minimize"]

MaximizeValueObjective(name) ==
    [cls |-> "MaximizeValueObjective", name |-> name, objective_type |-> "maximize"]

WeightedObjective(name, objs, weights) ==
    [cls |-> "WeightedObjective", name |-> name, objectives |-> objs,
     weights |-> weights, objective_type |-> "maximize"]

MinimizeTimeObjective_evaluate(o, sol) == Get(sol, "total_time", RZero)

MinimizeEnergyObjective_evaluate(o, sol) == Get(sol, "total_energy", RZero)

MaximizeValueObjective_evaluate(o, sol) == Get(sol, "mission_value", RZero)

\* the number of pairs zip(objectives, weights) yields
ZipLen(objs, weights) == Min2(Len(objs), Len(weights))

RECURSIVE Objective_evaluate(_, _)

\* WeightedObjective.evaluate's total after the first k pairs of the zip
RECURSIVE WeightedTotal(_, _, _)
WeightedTotal(o, sol, k) ==
    IF k = 0 THEN RZero
    ELSE LET obj    == o.objectives[k]
             weight == o.weights[k]
             value0 == Objective_evaluate(obj, sol)
             value  == IF obj.objective_type = "minimize"
                       THEN RSub(RZero, value0)
                       ELSE value0
         IN  RAdd(WeightedTotal(o, sol, k - 1), RMul(weight, value))

\* WeightedObjective.evaluate without the negation of minimize objectives
RECURSIVE WeightedTotal_NoNegation(_, _, _)
WeightedTotal_NoNegation(o, sol, k) ==
    IF k = 0 THEN RZero
    ELSE RAdd(WeightedTotal_NoNegation(o, sol, k - 1),
              RMul(o.weights[k], Objective_evaluate(o.objectives[k], sol)))

WeightedObjective_evaluate_NoNegation(o, sol) ==
    WeightedTotal_NoNegation(o, sol, ZipLen(o.objectives, o.weights))

WeightedObjective_evaluate(o, sol) ==
    WeightedTotal(o, sol, ZipLen(o.objectives, o.weights))

\* dynamic dispatch of objective.evaluate(solution)
Objective_evaluate(o, sol) ==
    CASE o.cls = "MinimizeTimeObjective"   -> MinimizeTimeObjective_evaluate(o, sol)
      [] o.cls = "MinimizeEnergyObjective" -> MinimizeEnergyObjective_evaluate(o, sol)
      [] o.cls = "MaximizeValueObjective"  -> MaximizeValueObjective_evaluate(o, sol)
      [] o.cls = "WeightedObjective"       -> WeightedObjective_evaluate(o, sol)

(***************************************************************************)
(* SpecObjective: one objective object evaluated on one solution bag       *)
(***************************************************************************)
SimpleObjectives ==
    { MinimizeTimeObjective("minimize_time"),
      MinimizeEnergyObjective("minimize_energy"),
      MaximizeValueObjective("maximize_value") }

WeightValues == { RInt(1), Rat(3, 5) }

WeightedObjectives ==
    { WeightedObjective("weighted", objs, ws) :
        objs \in SeqsUpTo(SimpleObjectives, MaxObjectives),
        ws \in SeqsUpTo(WeightValues, MaxWeights) }

ObjectiveSolutions ==
    { EmptyDict,
      [total_time |-> RInt(100), total_energy |-> RInt(200)],
      [mission_value |-> RInt(75)],
      [total_time |-> RInt(100), total_energy |-> RInt(200), mission_value |-> RInt(75)] }

InitObjective ==
    \E o \in SimpleObjectives \cup WeightedObjectives : \E sol \in ObjectiveSolutions :
        /\ objective = o
        /\ objSolution = sol
        /\ objValue = NoResult

InitSpecObjective ==
    /\ InitObjective
    /\ IdleConstraintVars
    /\ IdlePlannerVars
    /\ IdleWindowVars
    /\ IdleSimVars
    /\ IdleMCVars
    /\ IdleExtraVars

EvaluateMinimizeTime ==
    /\ objective.cls = "MinimizeTimeObjective"
    /\ objValue = NoResult
    /\ objValue' = MinimizeTimeObjective_evaluate(objective, objSolution)
    /\ UNCHANGED <<objective, objSolution, cvars, pvars, wvars, svars, mvars, xvars>>

EvaluateMinimizeEnergy ==
    /\ objective.cls = "MinimizeEnergyObjective"
    /\ objValue = NoResult
    /\ objValue' = MinimizeEnergyObjective_evaluate(objective, objSolution)
    /\ UNCHANGED <<objective, objSolution, cvars, pvars, wvars, svars, mvars, xvars>>

EvaluateMaximizeValue ==
    /\ objective.cls = "MaximizeValueObjective"
    /\ objValue = NoResult
    /\ objValue' = MaximizeValueObjective_evaluate(objective, objSolution)
    /\ UNCHANGED <<objective, objSolution, cvars, pvars, wvars, svars, mvars, xvars>>

EvaluateWeighted ==
    /\ objective.cls = "WeightedObjective"
    /\ objValue = NoResult
    /\ objValue' = WeightedObjective_evaluate(objective, objSolution)
    /\ UNCHANGED <<objective, objSolution, cvars, pvars, wvars, svars, mvars, xvars>>

NextObjective ==
    \/ EvaluateMinimizeTime
    \/ EvaluateMinimizeEnergy
    \/ EvaluateMaximizeValue
    \/ EvaluateWeighted

SpecObjective == InitSpecObjective /\ [][NextObjective]_vars

\* the sum of f[i] over the indices i in S
RECURSIVE RSum(_, _)
RSum(f, S) ==
    IF S = {} THEN RZero
    ELSE LET i == CHOOSE j \in S : TRUE
         IN  RAdd(f[i], RSum(f, S \ {i}))

\* weight x value of the i-th supplied objective, value negated for 'minimize'
WeightedTerm(o, sol, i) ==
    LET value == Objective_evaluate(o.objectives[i], sol)
    IN  RMul(o.weights[i],
             IF o.objectives[i].objective_type = "minimize"
             THEN RSub(RZero, value) ELSE value)

RECURSIVE Violations(_, _, _)
Violations(cs, sol, k) ==
    IF k = 0 THEN <<>>
    ELSE LET prev == Violations(cs, sol, k - 1)
         IN  IF cs[k].constraint_type = "hard"
             THEN LET r == Evaluate(cs[k], sol)
                  IN  IF ~r[1] THEN Append(prev, <<cs[k].name, r[2]>>) ELSE prev
             ELSE prev

\* validate_solution without the test of constraint_type
RECURSIVE Violations_AnyKind(_, _, _)
Violations_AnyKind(cs, sol, k) ==
    IF k = 0 THEN <<>>
    ELSE LET prev == Violations_AnyKind(cs, sol, k - 1)
             r == Evaluate(cs[k], sol)
         IN  IF ~r[1] THEN Append(prev, <<cs[k].name, r[2]>>) ELSE prev

validate_solution_AnyKind(cs, sol) ==
    LET violations == Violations_AnyKind(cs, sol, Len(cs))
    IN  <<Len(violations) = 0, violations>>

validate_solution(cs, sol) ==
    LET violations == Violations(cs, sol, Len(cs))
    IN  <<Len(violations) = 0, violations>>

\* compute_objective_value's total after the first k objectives
RECURSIVE ObjectiveTotal(_, _, _)
ObjectiveTotal(objs, sol, k) ==
    IF k = 0 THEN RZero
    ELSE LET value == Objective_evaluate(objs[k], sol)
             prev  == ObjectiveTotal(objs, sol, k - 1)
         IN  IF objs[k].objective_type = "minimize"
             THEN RSub(prev, value)
             ELSE RAdd(prev, value)

\* compute_objective_value adding every objective, whatever its direction
RECURSIVE ObjectiveTotal_AllAdded(_, _, _)
ObjectiveTotal_AllAdded(objs, sol, k) ==
    IF k = 0 THEN RZero
    ELSE RAdd(ObjectiveTotal_AllAdded(objs, sol, k - 1),
              Objective_evaluate(objs[k], sol))

compute_objective_value_AllAdded(objs, sol) ==
    ObjectiveTotal_AllAdded(objs, sol, Len(objs))

compute_objective_value(objs, sol) == ObjectiveTotal(objs, sol, Len(objs))

\* MissionPlanner.get_metrics: validate_solution and compute_objective_value
\* are each called once, and the dictionary is built from their results
get_metrics(cs, objs, sol) ==
    CHOOSE metrics \in
        { [is_valid |-> validated[1],
           num_violations |-> Len(validated[2]),
           violations |-> validated[2],
           objective_value |-> objective_value] :
             validated \in { validate_solution(cs, sol) },
             objective_value \in { compute_objective_value(objs, sol) } } : TRUE

(***************************************************************************)
(* A planner whose subclass supplies any constraint and objective lists    *)
(* (validation/test_core.py builds such planners)                          *)
(***************************************************************************)
GenericConstraints ==
    { c \in NumericConstraints : c.lower_bound = RInt(1) /\ c.upper_bound = RInt(2) }
    \cup { c \in EnergyConstraints : c.initial_energy = RInt(10) /\ c.min_reserve = RInt(1) }

GenericObjectives ==
    { MinimizeTimeObjective("minimize_time"),
      MaximizeValueObjective("maximize_value"),
      WeightedObjective("weighted",
                        << MinimizeEnergyObjective("minimize_energy"),
                           MaximizeValueObjective("maximize_value") >>,
                        << Rat(3, 5), RInt(2) >>) }

GenericSolutions ==
    { EmptyDict }
    \cup { [value |-> v, total_energy |-> e, total_time |-> RInt(100),
            mission_value |-> RInt(75)] :
             v \in { RInt(1), RInt(3) }, e \in { RInt(4), RInt(10) } }

InitGenericPlanner ==
    \E cs \in SeqsUpTo(GenericConstraints, MaxConstraints) :
    \E objs \in SeqsUpTo(GenericObjectives, MaxObjectives) :
        /\ kind = "MissionPlanner"
        /\ config = EmptyDict
        /\ constraints = cs
        /\ objectives = objs
        /\ solution = None
        /\ returned = None
        /\ call = NoCall

(***************************************************************************)
(* aircraft/planner.py: AircraftMissionPlanner                             *)
(***************************************************************************)
\* numpy.linalg.norm of an integer 3-vector
Norm3(v) == Sqrt(v[1] * v[1] + v[2] * v[2] + v[3] * v[3])

VSub3(a, b) == <<a[1] - b[1], a[2] - b[2], a[3] - b[3]>>

\* floor of a non-negative rational (astype(int))
RFloor(r) == r[1] \div r[2]

CruiseSpeed(params) == RMul(params.max_speed, Rat(4, 5))

\* define_constraints with an energy constraint that asks for no reserve
AircraftPlanner_define_constraints_NoReserve(cfg) ==
    (IF cfg.no_fly_zones # <<>>
     THEN << [cls |-> "AircraftGeofenceConstraint", name |-> "geofence",
              no_fly_polygons |-> cfg.no_fly_zones, constraint_type |-> "hard"] >>
     ELSE << >>)
    \o << [cls |-> "AltitudeConstraint", name |-> "altitude_limits",
           min_altitude |-> 50, max_altitude |-> 500, constraint_type |-> "hard"],
          [cls |-> "TurnRateConstraint", name |-> "turn_rate",
           max_turn_rate |-> cfg.aircraft_params.max_turn_rate,
           cruise_speed |-> CruiseSpeed(cfg.aircraft_params),
           constraint_type |-> "hard"],
          [cls |-> "EnergyConstraint", name |-> "energy_budget",
           initial_energy |-> cfg.aircraft_params.battery_capacity,
           min_reserve |-> RZero,
           constraint_type |-> "hard"] >>

\* define_constraints with an energy constraint that asks for a reserve above
\* the battery's capacity
AircraftPlanner_define_constraints_OverReserve(cfg) ==
    (IF cfg.no_fly_zones # <<>>
     THEN << [cls |-> "AircraftGeofenceConstraint", name |-> "geofence",
              no_fly_polygons |-> cfg.no_fly_zones, constraint_type |-> "hard"] >>
     ELSE << >>)
    \o << [cls |-> "AltitudeConstraint", name |-> "altitude_limits",
           min_altitude |-> 50, max_altitude |-> 500, constraint_type |-> "hard"],
          [cls |-> "TurnRateConstraint", name |-> "turn_rate",
           max_turn_rate |-> cfg.aircraft_params.max_turn_rate,
           cruise_speed |-> CruiseSpeed(cfg.aircraft_params),
           constraint_type |-> "hard"],
          [cls |-> "EnergyConstraint", name |-> "energy_budget",
           initial_energy |-> cfg.aircraft_params.battery_capacity,
           min_reserve |-> RAdd(cfg.aircraft_params.battery_capacity, RInt(1)),
           constraint_type |-> "hard"] >>

AircraftPlanner_define_constraints(cfg) ==
    (IF cfg.no_fly_zones # <<>>
     THEN << [cls |-> "AircraftGeofenceConstraint", name |-> "geofence",
              no_fly_polygons |-> cfg.no_fly_zones, constraint_type |-> "hard"] >>
     ELSE << >>)
    \o << [cls |-> "AltitudeConstraint", name |-> "altitude_limits",
           min_altitude |-> 50, max_altitude |-> 500, constraint_type |-> "hard"],
          [cls |-> "TurnRateConstraint", name |-> "turn_rate",
           max_turn_rate |-> cfg.aircraft_params.max_turn_rate,
           cruise_speed |-> CruiseSpeed(cfg.aircraft_params),
           constraint_type |-> "hard"],
          [cls |-> "EnergyConstraint", name |-> "energy_budget",
           initial_energy |-> cfg.aircraft_params.battery_capacity,
           min_reserve |-> RMul(cfg.aircraft_params.battery_capacity, Rat(1, 10)),
           constraint_type |-> "hard"] >>

AircraftPlanner_define_objectives == << MinimizeTimeObjective("minimize_mission_time") >>

\* dist_matrix_int[i][j] for 0-based nodes i, j
DistMatrixInt(cfg, i, j) ==
    IF i = j THEN 0
    ELSE RFloor(RMul(Norm3(VSub3(cfg.waypoints[i + 1], cfg.waypoints[j + 1])), RInt(100)))

simulate_segment(cfg, start, end) ==
    LET distance == Norm3(VSub3(end, start))
        segment_time == RDiv(distance, CruiseSpeed(cfg.aircraft_params))
        segment_energy == RMul(cfg.aircraft_params.power_consumption_base, segment_time)
    IN  <<segment_time, segment_energy>>

\* (times, total_energy) after the first k segments of the loop
RECURSIVE SimulatePathLoop(_, _, _)
SimulatePathLoop(cfg, path, k) ==
    IF k = 0 THEN << <<RZero>>, RZero >>
    ELSE LET prev == SimulatePathLoop(cfg, path, k - 1)
             seg  == simulate_segment(cfg, path[k], path[k + 1])
             times == prev[1]
         IN  << Append(times, RAdd(times[Len(times)], seg[1])), RAdd(prev[2], seg[2]) >>

simulate_path(cfg, path) ==
    IF Len(path) < 2 THEN << <<RZero>>, RZero >>
    ELSE SimulatePathLoop(cfg, path, Len(path) - 1)

\* what routing.SolveWithParameters hands back: nothing, or an assignment
\* whose NextVar chain leaves the depot, visits every other node once and
\* ends at the depot
NoAssignment == [assignment |-> FALSE]

Injective(q) == \A i, j \in DOMAIN q : q[i] = q[j] => i = j

RoutingAssignments(n) ==
    { [assignment |-> TRUE, order |-> <<0>> \o q] :
        q \in { q \in [1..(n - 1) -> 1..(n - 1)] : Injective(q) } }

\* the route read off the assignment, the node at the end index left out
ExtractRoute_NoFinalNode(a) == a.order

\* the route read off the assignment, final node included
ExtractRoute(a) == Append(a.order, 0)

\* assignment.ObjectiveValue(): the arc costs along the route
RECURSIVE RouteCost(_, _, _)
RouteCost(cfg, route, k) ==
    IF k = 0 THEN 0
    ELSE RouteCost(cfg, route, k - 1) + DistMatrixInt(cfg, route[k], route[k + 1])

AircraftEmptySolution ==
    [route_indices |-> <<>>, path |-> <<>>, times |-> <<>>,
     total_time |-> RZero, total_energy |-> RZero, distance |-> RZero]

AircraftSolution(cfg, a) ==
    LET route == ExtractRoute(a)
        path  == [i \in 1..Len(route) |-> cfg.waypoints[route[i] + 1]]
        sim   == simulate_path(cfg, path)
        times == sim[1]
    IN  [route_indices |-> route,
         path |-> path,
         times |-> times,
         total_time |-> IF times # <<>> THEN times[Len(times)] ELSE RZero,
         total_energy |-> sim[2],
         distance |-> Rat(RouteCost(cfg, route, Len(route) - 1), 100)]

(***************************************************************************)
(* spacecraft/planner.py: visibility and contact windows                   *)
(***************************************************************************)
DT == 60

\* end_time = start_time + timedelta(days), in seconds since start_time
EndTime(days) == days * SamplesPerDay * DT

\* the loop body leaving in_window set when it records the end of a window
WindowLoopStep_NoReset(st, visible, t) ==
    IF visible /\ ~st.in_window
    THEN [st EXCEPT !.window_start = t, !.in_window = TRUE]
    ELSE IF ~visible /\ st.in_window
         THEN [st EXCEPT !.windows = Append(@, <<st.window_start, t>>)]
         ELSE st

\* the function returning without closing a window still open at the horizon
CloseOpenWindow_Dropped(st, end_time) == st.windows

\* the loop body ending a window at the last sample that was visible
WindowLoopStep_EndAtLastVisible(st, visible, t) ==
    IF visible /\ ~st.in_window
    THEN [st EXCEPT !.window_start = t, !.in_window = TRUE]
    ELSE IF ~visible /\ st.in_window
         THEN [st EXCEPT !.windows = Append(@, <<st.window_start, t - DT>>),
                         !.in_window = FALSE]
         ELSE st

\* one pass through the body of the while loop at time t, on the loop's
\* locals [in_window, window_start, windows]
WindowLoopStep(st, visible, t) ==
    IF visible /\ ~st.in_window
    THEN [st EXCEPT !.window_start = t, !.in_window = TRUE]
    ELSE IF ~visible /\ st.in_window
         THEN [st EXCEPT !.windows = Append(@, <<st.window_start, t>>),
                         !.in_window = FALSE]
         ELSE st

\* "close any open window", after the while loop
CloseOpenWindow(st, end_time) ==
    IF st.in_window THEN Append(st.windows, <<st.window_start, end_time>>)
    ELSE st.windows

WindowLocals == [in_window |-> FALSE, window_start |-> None, windows |-> <<>>]

\* the loop's locals after the first k samples of a visibility signal
RECURSIVE WindowLoop(_, _)
WindowLoop(signal, k) ==
    IF k = 0 THEN WindowLocals
    ELSE WindowLoopStep(WindowLoop(signal, k - 1), signal[k], (k - 1) * DT)

\* the window list of one location whose is_visible results are signal
DetectWindows(signal, days) ==
    CloseOpenWindow(WindowLoop(signal, Len(signal)), EndTime(days))

LocationLists == { <<>>, <<"A">>, <<"A", "B">> }

InitWindows ==
    /\ fn \in {"compute_target_windows", "compute_station_windows"}
    /\ locations \in LocationLists
    /\ mission_duration_days \in 0..MaxDays
    /\ loc = 1
    /\ current_time = 0
    /\ in_window = FALSE
    /\ window_start = None
    /\ location_windows = <<>>
    /\ windows = EmptyDict
    /\ sampled = [i \in 1..Len(locations) |-> <<>>]

InitSpecWindows ==
    /\ InitWindows
    /\ IdleConstraintVars
    /\ IdleObjectiveVars
    /\ IdlePlannerVars
    /\ IdleSimVars
    /\ IdleMCVars
    /\ IdleExtraVars

\* one iteration of the while loop of compute_target_windows
TargetSample ==
    /\ fn = "compute_target_windows"
    /\ loc <= Len(locations)
    /\ current_time < EndTime(mission_duration_days)
    /\ \E visible \in BOOLEAN :
         LET st == WindowLoopStep([in_window |-> in_window,
                                   window_start |-> window_start,
                                   windows |-> location_windows],
                                  visible, current_time)
         IN  /\ in_window' = st.in_window
             /\ window_start' = st.window_start
             /\ location_windows' = st.windows
             /\ sampled' = [sampled EXCEPT ![loc] = Append(@, visible)]
    /\ current_time' = current_time + DT
    /\ UNCHANGED <<fn, locations, mission_duration_days, loc, windows>>
    /\ UNCHANGED <<cvars, ovars, pvars, svars, mvars, xvars>>

\* the end of one target: close the open window, store the list, next target
TargetDone ==
    /\ fn = "compute_target_windows"
    /\ loc <= Len(locations)
    /\ ~(current_time < EndTime(mission_duration_days))
    /\ windows' = [n \in DOMAIN windows \cup {locations[loc]} |->
                     IF n = locations[loc]
                     THEN CloseOpenWindow([in_window |-> in_window,
                                           window_start |-> window_start,
                                           windows |-> location_windows],
                                          EndTime(mission_duration_days))
                     ELSE windows[n]]
    /\ loc' = loc + 1
    /\ current_time' = 0
    /\ in_window' = FALSE
    /\ window_start' = None
    /\ location_windows' = <<>>
    /\ UNCHANGED <<fn, locations, mission_duration_days, sampled>>
    /\ UNCHANGED <<cvars, ovars, pvars, svars, mvars, xvars>>

\* one iteration of the while loop of compute_station_windows
StationSample ==
    /\ fn = "compute_station_windows"
    /\ loc <= Len(locations)
    /\ current_time < EndTime(mission_duration_days)
    /\ \E visible \in BOOLEAN :
         LET st == WindowLoopStep([in_window |-> in_window,
                                   window_start |-> window_start,
                                   windows |-> location_windows],
                                  visible, current_time)
         IN  /\ in_window' = st.in_window
             /\ window_start' = st.window_start
             /\ location_windows' = st.windows
             /\ sampled' = [sampled EXCEPT ![loc] = Append(@, visible)]
    /\ current_time' = current_time + DT
    /\ UNCHANGED <<fn, locations, mission_duration_days, loc, windows>>
    /\ UNCHANGED <<cvars, ovars, pvars, svars, mvars, xvars>>

\* the end of one station: close the open window, store the list, next station
StationDone ==
    /\ fn = "compute_station_windows"
    /\ loc <= Len(locations)
    /\ ~(current_time < EndTime(mission_duration_days))
    /\ windows' = [n \in DOMAIN windows \cup {locations[loc]} |->
                     IF n = locations[loc]
                     THEN CloseOpenWindow([in_window |-> in_window,
                                           window_start |-> window_start,
                                           windows |-> location_windows],
                                          EndTime(mission_duration_days))
                     ELSE windows[n]]
    /\ loc' = loc + 1
    /\ current_time' = 0
    /\ in_window' = FALSE
    /\ window_start' = None
    /\ location_windows' = <<>>
    /\ UNCHANGED <<fn, locations, mission_duration_days, sampled>>
    /\ UNCHANGED <<cvars, ovars, pvars, svars, mvars, xvars>>

NextWindows == TargetSample \/ TargetDone \/ StationSample \/ StationDone

SpecWindows == InitSpecWindows /\ [][NextWindows]_vars

\* the locations whose window list is complete
DoneLocations == { i \in 1..Len(locations) : i < loc }

WellFormedWindows(ws) ==
    /\ \A i \in 1..Len(ws) : ws[i][1] < ws[i][2]
    /\ \A i \in 1..(Len(ws) - 1) :
         /\ ws[i][1] < ws[i + 1][1]
         /\ ws[i][2] <= ws[i + 1][1]

\* C5: every window list produced by compute_target_windows and
\* compute_station_windows, and the list under construction, has start < end
\* in each window, strictly ascending starts, and each window's end no later
\* than the next window's start.
C5_WindowsOrderedDisjoint ==
    fn \in {"compute_target_windows", "compute_station_windows"} =>
        /\ \A n \in DOMAIN windows : WellFormedWindows(windows[n])
        /\ WellFormedWindows(location_windows)

\* a finished location with two windows, the second one closed at the horizon
C5_Witness ==
    /\ fn = "compute_station_windows"
    /\ \E i \in DoneLocations :
         /\ Len(windows[locations[i]]) = 2
         /\ windows[locations[i]][2][2] = EndTime(mission_duration_days)

\* the sample indices (0-based) at which a window must start: visible, and
\* the first sample or not visible one sample earlier
RisingEdges(signal) ==
    { k \in 0..(Len(signal) - 1) :
        signal[k + 1] /\ (k = 0 \/ ~signal[k]) }

\* the time at which the window started at sample k must end: the next
\* not-visible sample, or the horizon end when there is none
ExpectedEnd(signal, k, end_time) ==
    LET later == { j \in (k + 1)..(Len(signal) - 1) : ~signal[j + 1] }
    IN  IF later = {} THEN end_time
        ELSE DT * (CHOOSE j \in later : \A m \in later : j <= m)

\* C6: for every finished location the windows are exactly the edges of the
\* sampled visibility signal: one window per rising edge (or visible first
\* sample), ending at the next not-visible sample or at the horizon end; and
\* a sample time lies in some window [start, end) iff the location was
\* visible at that sample.
C6_WindowsAreSignalEdges ==
    \A i \in DoneLocations :
        LET ws == windows[locations[i]]
            signal == sampled[i]
            end_time == EndTime(mission_duration_days)
        IN  /\ { ws[j] : j \in 1..Len(ws) } =
               { <<k * DT, ExpectedEnd(signal, k, end_time)>> : k \in RisingEdges(signal) }
            /\ Len(ws) = Cardinality(RisingEdges(signal))
            /\ \A k \in 0..(Len(signal) - 1) :
                 signal[k + 1] <=> \E j \in 1..Len(ws) : ws[j][1] <= k * DT /\ k * DT < ws[j][2]

\* a finished target visible at the first sample, hidden, then visible up to
\* the horizon end
C6_Witness ==
    /\ fn = "compute_target_windows"
    /\ \E i \in DoneLocations :
         /\ Len(sampled[i]) >= 3
         /\ sampled[i][1] /\ ~sampled[i][2] /\ sampled[i][Len(sampled[i])]
         /\ Len(windows[locations[i]]) >= 2

(***************************************************************************)
(* spacecraft/planner.py: SpacecraftMissionPlanner                         *)
(***************************************************************************)
SpacecraftPlanner_define_constraints(cfg) ==
    << [cls |-> "PointingSlewConstraint", name |-> "slew_rate",
        max_slew_rate |-> RInt(1), constraint_type |-> "hard"],
       [cls |-> "PowerBudgetConstraint", name |-> "power_budget",
        battery_capacity |-> RInt(100), solar_power |-> RInt(30),
        min_battery_level |-> Rat(1, 5), constraint_type |-> "hard"],
       [cls |-> "DutyCycleConstraint", name |-> "duty_cycle",
        max_ops_per_orbit |-> 5, orbital_period |-> cfg.orbital_period,
        constraint_type |-> "hard"],
       [cls |-> "DownlinkConstraint", name |-> "downlink_requirement",
        max_storage_time |-> RInt(86400), violation_penalty |-> RInt(10),
        constraint_type |-> "soft"] >>

SpacecraftPlanner_define_objectives == << MaximizeValueObjective("maximize_science_value") >>

\* obs_info after the first k targets: one entry per (target, window)
RECURSIVE ObsInfo(_, _)
ObsInfo(cfg, k) ==
    IF k = 0 THEN <<>>
    ELSE LET target == cfg.ground_targets[k]
             ws == Get(cfg.target_windows, target.name, <<>>)
         IN  ObsInfo(cfg, k - 1) \o
             [i \in 1..Len(ws) |->
                [var_name |-> <<"obs", target.name, i - 1>>,
                 target |-> target,
                 window_start |-> ws[i][1],
                 window_end |-> ws[i][2],
                 priority |-> target.priority]]

\* downlink_info after the first k stations: one entry per (station, window)
RECURSIVE DownlinkInfo(_, _)
DownlinkInfo(cfg, k) ==
    IF k = 0 THEN <<>>
    ELSE LET station == cfg.ground_stations[k]
             ws == Get(cfg.station_windows, station.name, <<>>)
         IN  DownlinkInfo(cfg, k - 1) \o
             [i \in 1..Len(ws) |->
                [var_name |-> <<"downlink", station.name, i - 1>>,
                 station |-> station,
                 window_start |-> ws[i][1],
                 window_end |-> ws[i][2]]]

BoolVars(cfg) ==
    { ObsInfo(cfg, Len(cfg.ground_targets))[i].var_name :
        i \in 1..Len(ObsInfo(cfg, Len(cfg.ground_targets))) }
    \cup
    { DownlinkInfo(cfg, Len(cfg.ground_stations))[i].var_name :
        i \in 1..Len(DownlinkInfo(cfg, Len(cfg.ground_stations))) }

\* what solver.Solve hands back: a status, and with OPTIMAL or FEASIBLE the
\* subset of the boolean variables set true
CpSolverResponses(cfg) ==
    { [status |-> st, true_vars |-> {}] : st \in {"INFEASIBLE", "MODEL_INVALID", "UNKNOWN"} }
    \cup
    { [status |-> st, true_vars |-> tv] :
        st \in {"OPTIMAL", "FEASIBLE"}, tv \in SUBSET BoolVars(cfg) }

\* the items appended by the two extraction loops, in order
RECURSIVE ScheduledObservations(_, _, _)
ScheduledObservations(info, resp, k) ==
    IF k = 0 THEN <<>>
    ELSE LET prev == ScheduledObservations(info, resp, k - 1)
         IN  IF info[k].var_name \in resp.true_vars
             THEN Append(prev,
                         [type |-> "observation",
                          target_id |-> info[k].target.name,
                          start_time |-> info[k].window_start,
                          end_time |-> info[k].window_start + 30,
                          priority |-> info[k].priority,
                          target_position |-> <<0, 0, 1>>])
             ELSE prev

RECURSIVE ScheduledDownlinks(_, _, _)
ScheduledDownlinks(info, resp, k) ==
    IF k = 0 THEN <<>>
    ELSE LET prev == ScheduledDownlinks(info, resp, k - 1)
         IN  IF info[k].var_name \in resp.true_vars
             THEN Append(prev,
                         [type |-> "downlink",
                          station_id |-> info[k].station.name,
                          start_time |-> info[k].window_start,
                          end_time |-> info[k].window_start + 60,
                          observation_ids |-> <<>>])
             ELSE prev

\* list.sort(key=start_time): stable, so an item goes after every item
\* already placed whose start_time is not later
InsertByStart(sorted, item) ==
    LET before == Cardinality({ i \in 1..Len(sorted) :
                                  sorted[i]["start_time"] <= item["start_time"] })
    IN  [i \in 1..(Len(sorted) + 1) |->
            IF i <= before THEN sorted[i]
            ELSE IF i = before + 1 THEN item
            ELSE sorted[i - 1]]

\* the schedule left in the order the two extraction loops appended it
RECURSIVE SortByStart_Unsorted(_, _)
SortByStart_Unsorted(items, k) ==
    IF k = 0 THEN <<>> ELSE Append(SortByStart_Unsorted(items, k - 1), items[k])

RECURSIVE SortByStart(_, _)
SortByStart(items, k) ==
    IF k = 0 THEN <<>>
    ELSE InsertByStart(SortByStart(items, k - 1), items[k])

RECURSIVE TotalValue(_, _)
TotalValue(obs, k) ==
    IF k = 0 THEN RZero ELSE RAdd(TotalValue(obs, k - 1), obs[k]["priority"])

CountType(schedule, type) ==
    Cardinality({ i \in 1..Len(schedule) : schedule[i]["type"] = type })

SpacecraftEmptySolution ==
    [schedule |-> <<>>, mission_value |-> RZero,
     num_observations |-> 0, num_downlinks |-> 0]

SpacecraftSolution(cfg, resp) ==
    LET obs == ScheduledObservations(ObsInfo(cfg, Len(cfg.ground_targets)), resp,
                                     Len(ObsInfo(cfg, Len(cfg.ground_targets))))
        dls == ScheduledDownlinks(DownlinkInfo(cfg, Len(cfg.ground_stations)), resp,
                                  Len(DownlinkInfo(cfg, Len(cfg.ground_stations))))
        schedule == SortByStart(obs \o dls, Len(obs) + Len(dls))
    IN  [schedule |-> schedule,
         mission_value |-> TotalValue(obs, Len(obs)),
         num_observations |-> CountType(schedule, "observation"),
         num_downlinks |-> CountType(schedule, "downlink")]

(***************************************************************************)
(* Inputs of SpecPlanner: the planners that can be constructed             *)
(***************************************************************************)
Depot == <<0, 0, 50>>

\* pairwise distances 117, 240, 44, 267, 125 and 244 m; the last waypoint
\* lies below the 50 m altitude floor
WaypointChoices == { Depot, <<117, 0, 50>>, <<0, 240, 50>>, <<0, 0, 6>> }

WaypointLists ==
    { w \in SeqsUpTo(WaypointChoices, MaxWaypoints) :
        Len(w) >= 1 /\ w[1] = Depot /\ Injective(w) }

AircraftParamsChoices ==
    { [max_speed |-> RInt(25), max_turn_rate |-> tr,
       power_consumption_base |-> RInt(100), battery_capacity |-> cap] :
        tr \in { Rat(1, 2), RInt(30) },
        cap \in { RZero, RInt(3200), RInt(1800000) } }

NoFlyZoneChoices ==
    { <<>>, << [xmin |-> 100, xmax |-> 130, ymin |-> -10, ymax |-> 10] >> }

AircraftConfigs ==
    [aircraft_params : AircraftParamsChoices, waypoints : WaypointLists,
     no_fly_zones : NoFlyZoneChoices]

\* what is_visible returns for a location at each sample of one day
VisibilitySignal(name) ==
    [k \in 1..SamplesPerDay |->
        CASE name = "A" -> (k - 1) % 2 = 0
          [] name = "B" -> k <= 2
          [] OTHER     -> k = 2]

GroundTargetLists ==
    { <<>>,
      << [name |-> "A", priority |-> Rat(3, 2)] >>,
      << [name |-> "A", priority |-> Rat(3, 2)], [name |-> "B", priority |-> RInt(2)] >> }

GroundStationLists == { <<>>, << [name |-> "S"] >> }

OrbitalPeriod == Rat(567698, 100)

SpacecraftConfigs ==
    { [ground_targets |-> ts, ground_stations |-> ss, mission_duration_days |-> 1,
       orbital_period |-> OrbitalPeriod,
       target_windows |->
           [n \in { ts[i].name : i \in 1..Len(ts) } |-> DetectWindows(VisibilitySignal(n), 1)],
       station_windows |->
           [n \in { ss[i].name : i \in 1..Len(ss) } |-> DetectWindows(VisibilitySignal(n), 1)]] :
        ts \in GroundTargetLists, ss \in GroundStationLists }

InitAircraftPlanner ==
    \E cfg \in AircraftConfigs :
        /\ kind = "AircraftMissionPlanner"
        /\ config = cfg
        /\ constraints = AircraftPlanner_define_constraints(cfg)
        /\ objectives = AircraftPlanner_define_objectives
        /\ solution = None
        /\ returned = None
        /\ call = NoCall

InitSpacecraftPlanner ==
    \E cfg \in SpacecraftConfigs :
        /\ kind = "SpacecraftMissionPlanner"
        /\ config = cfg
        /\ constraints = SpacecraftPlanner_define_constraints(cfg)
        /\ objectives = SpacecraftPlanner_define_objectives
        /\ solution = None
        /\ returned = None
        /\ call = NoCall

InitSpecPlanner ==
    /\ InitGenericPlanner \/ InitAircraftPlanner \/ InitSpacecraftPlanner
    /\ IdleConstraintVars
    /\ IdleObjectiveVars
    /\ IdleWindowVars
    /\ IdleSimVars
    /\ IdleMCVars
    /\ IdleExtraVars

\* the solution bags the planner's methods are called with
Arguments ==
    IF kind = "MissionPlanner" THEN GenericSolutions
    ELSE { solution, returned } \ { None }

\* status in [cp_model.OPTIMAL, cp_model.FEASIBLE], OPTIMAL alone
StatusHasSolution_OptimalOnly(status) == status = "OPTIMAL"

\* a test of the status that every status passes
StatusHasSolution_Always(status) == status = status

\* status in [cp_model.OPTIMAL, cp_model.FEASIBLE]
StatusHasSolution(status) == status \in {"OPTIMAL", "FEASIBLE"}

\* AircraftMissionPlanner.solve
SolveAircraft ==
    /\ kind = "AircraftMissionPlanner"
    /\ \E resp \in {NoAssignment} \cup RoutingAssignments(Len(config.waypoints)) :
         IF resp.assignment
         THEN /\ solution' = AircraftSolution(config, resp)
              /\ returned' = AircraftSolution(config, resp)
              /\ call' = [op |-> "solve", arg |-> resp, ret |-> AircraftSolution(config, resp)]
         ELSE /\ solution' = solution
              /\ returned' = AircraftEmptySolution
              /\ call' = [op |-> "solve", arg |-> resp, ret |-> AircraftEmptySolution]
    /\ UNCHANGED <<kind, config, constraints, objectives>>
    /\ UNCHANGED <<cvars, ovars, wvars, svars, mvars, xvars>>

\* SpacecraftMissionPlanner.solve
SolveSpacecraft ==
    /\ kind = "SpacecraftMissionPlanner"
    /\ \E resp \in CpSolverResponses(config) :
         IF StatusHasSolution(resp.status)
         THEN /\ solution' = SpacecraftSolution(config, resp)
              /\ returned' = SpacecraftSolution(config, resp)
              /\ call' = [op |-> "solve", arg |-> resp, ret |-> SpacecraftSolution(config, resp)]
         ELSE /\ solution' = solution
              /\ returned' = SpacecraftEmptySolution
              /\ call' = [op |-> "solve", arg |-> resp, ret |-> SpacecraftEmptySolution]
    /\ UNCHANGED <<kind, config, constraints, objectives>>
    /\ UNCHANGED <<cvars, ovars, wvars, svars, mvars, xvars>>

\* MissionPlanner.validate_solution
ValidateSolution ==
    /\ kind # "none"
    /\ \E sol \in Arguments :
         call' = [op |-> "validate_solution", arg |-> sol,
                  ret |-> validate_solution(constraints, sol)]
    /\ UNCHANGED <<kind, config, constraints, objectives, solution, returned>>
    /\ UNCHANGED <<cvars, ovars, wvars, svars, mvars, xvars>>

\* MissionPlanner.compute_objective_value
ComputeObjectiveValue ==
    /\ kind # "none"
    /\ \E sol \in Arguments :
         call' = [op |-> "compute_objective_value", arg |-> sol,
                  ret |-> compute_objective_value(objectives, sol)]
    /\ UNCHANGED <<kind, config, constraints, objectives, solution, returned>>
    /\ UNCHANGED <<cvars, ovars, wvars, svars, mvars, xvars>>

\* MissionPlanner.get_metrics
GetMetrics ==
    /\ kind # "none"
    /\ \E sol \in Arguments :
         call' = [op |-> "get_metrics", arg |-> sol,
                  ret |-> get_metrics(constraints, objectives, sol)]
    /\ UNCHANGED <<kind, config, constraints, objectives, solution, returned>>
    /\ UNCHANGED <<cvars, ovars, wvars, svars, mvars, xvars>>

NextPlanner ==
    \/ SolveAircraft
    \/ SolveSpacecraft
    \/ ValidateSolution
    \/ ComputeObjectiveValue
    \/ GetMetrics

SpecPlanner == InitSpecPlanner /\ [][NextPlanner]_vars

\* the positions of the planner's hard constraints not satisfied on sol
ViolatedHard(sol) ==
    { i \in 1..Len(constraints) :
        constraints[i].constraint_type = "hard" /\ ~Evaluate(constraints[i], sol)[1] }

\* the k-th smallest element of a set of integers
NthSmallest(S, k) ==
    CHOOSE i \in S : Cardinality({ j \in S : j < i }) = k - 1

PlannerState ==
    IF returned = None THEN "Unsolved"
    ELSE IF solution = returned THEN "Solved"
    ELSE "Infeasible"

\* whether the solver handed back an assignment: a routing assignment, or a
\* CP-SAT status of OPTIMAL or FEASIBLE
SolverAssigned(resp) ==
    IF kind = "AircraftMissionPlanner" THEN resp.assignment
    ELSE resp.status \in {"OPTIMAL", "FEASIBLE"}

\* C4: after solve(), if the solver handed back no assignment the returned
\* solution has an empty route, path and times (or an empty schedule) and
\* every scalar metric zero; if it handed back an assignment the planner is
\* Solved, holding the returned solution, and not Infeasible.
C4_NoAssignmentIsEmptyElseSolved ==
    call.op = "solve" =>
        IF SolverAssigned(call.arg)
        THEN /\ PlannerState = "Solved"
             /\ solution = call.ret
        ELSE IF kind = "AircraftMissionPlanner"
             THEN /\ call.ret.route_indices = <<>>
                  /\ call.ret.path = <<>>
                  /\ call.ret.times = <<>>
                  /\ call.ret.total_time = RZero
                  /\ call.ret.total_energy = RZero
                  /\ call.ret.distance = RZero
             ELSE /\ call.ret.schedule = <<>>
                  /\ call.ret.mission_value = RZero
                  /\ call.ret.num_observations = 0
                  /\ call.ret.num_downlinks = 0

\* a spacecraft planner that was Solved with a non-empty schedule and whose
\* next solve() meets a solver without an assignment
C4_Witness ==
    /\ kind = "SpacecraftMissionPlanner"
    /\ call.op = "solve"
    /\ call.arg.status = "UNKNOWN"
    /\ solution # None
    /\ solution.schedule # <<>>
    /\ returned.schedule = <<>>

\* C12: whenever the routing solver hands back an assignment for the N
\* waypoints, the route_indices returned by AircraftMissionPlanner.solve
\* have N + 1 entries, start at node 0, end at node 0, and the first N
\* entries are the nodes 0..N-1, each exactly once.
C12_RouteIsCycleThroughAllNodes ==
    (kind = "AircraftMissionPlanner" /\ call.op = "solve" /\ call.arg.assignment) =>
        LET route == call.ret.route_indices
            N == Len(config.waypoints)
        IN  /\ Len(route) = N + 1
            /\ route[1] = 0
            /\ route[N + 1] = 0
            /\ { route[i] : i \in 1..N } = 0..(N - 1)
            /\ \A i, j \in 1..N : route[i] = route[j] => i = j

\* a solve() over three waypoints whose assignment visits node 2 before node 1
C12_Witness ==
    /\ kind = "AircraftMissionPlanner"
    /\ call.op = "solve"
    /\ call.arg.assignment
    /\ Len(config.waypoints) = 3
    /\ call.ret.route_indices = <<0, 2, 1, 0>>

\* the energy the route leaves in the battery is below the required reserve
LeavesLessThanReserve(sol) ==
    LET capacity == config.aircraft_params.battery_capacity
    IN  RLess(RSub(capacity, sol.total_energy), RMul(capacity, Rat(1, 10)))

\* C13: for every battery capacity solve() returns the route of the solver's
\* assignment, with the path through the waypoints in that order; and
\* whenever the simulated total_energy of the validated solution leaves less
\* than 10% of the battery capacity, validate_solution returns
\* is_valid = false with an energy_budget violation of positive magnitude.
C13_RouteReturnedAndEnergyReported ==
    kind = "AircraftMissionPlanner" =>
        /\ (call.op = "solve" /\ call.arg.assignment) =>
              /\ call.ret.route_indices = Append(call.arg.order, 0)
              /\ call.ret.path =
                    [i \in 1..(Len(call.arg.order) + 1) |->
                       config.waypoints[Append(call.arg.order, 0)[i] + 1]]
        /\ (call.op = "validate_solution" /\ LeavesLessThanReserve(call.arg)) =>
              /\ call.ret[1] = FALSE
              /\ \E k \in 1..Len(call.ret[2]) :
                    /\ call.ret[2][k][1] = "energy_budget"
                    /\ RLess(RZero, call.ret[2][k][2])

\* a route over three waypoints that was returned although it needs more
\* than the small battery holds in excess of the reserve, then validated
C13_Witness ==
    /\ kind = "AircraftMissionPlanner"
    /\ call.op = "validate_solution"
    /\ Len(call.arg.route_indices) = 4
    /\ LeavesLessThanReserve(call.arg)
    /\ RLess(call.arg.total_energy, config.aircraft_params.battery_capacity)
    /\ call.ret[1] = FALSE

\* whether a schedule item is the activity of boolean variable v = (obs or
\* downlink, location name, window index): its type, its location and the
\* start of that window
ActivityOf(item, v) ==
    IF v[1] = "obs"
    THEN /\ item["type"] = "observation"
         /\ item["target_id"] = v[2]
         /\ item["start_time"] = config.target_windows[v[2]][v[3] + 1][1]
    ELSE /\ item["type"] = "downlink"
         /\ item["station_id"] = v[2]
         /\ item["start_time"] = config.station_windows[v[2]][v[3] + 1][1]

\* C16: the schedule returned by SpacecraftMissionPlanner.solve is ordered
\* by start_time ascending, whatever subset of the observation and downlink
\* variables the solver sets true, and holds exactly one activity for each
\* variable set true and nothing else.
C16_ScheduleSortedOnePerTrueVar ==
    (kind = "SpacecraftMissionPlanner" /\ call.op = "solve"
       /\ call.arg.status \in {"OPTIMAL", "FEASIBLE"}) =>
        LET schedule == call.ret.schedule
        IN  /\ \A i, j \in 1..Len(schedule) :
                 i < j => schedule[i]["start_time"] <= schedule[j]["start_time"]
            /\ Len(schedule) = Cardinality(call.arg.true_vars)
            /\ \A v \in call.arg.true_vars :
                 Cardinality({ i \in 1..Len(schedule) : ActivityOf(schedule[i], v) }) = 1

\* a solve() whose solver set true a downlink and a later observation of the
\* target listed first, and an observation of the second target that begins
\* before both
C16_Witness ==
    /\ kind = "SpacecraftMissionPlanner"
    /\ call.op = "solve"
    /\ call.arg.status = "FEASIBLE"
    /\ call.arg.true_vars = { <<"obs", "A", 1>>, <<"obs", "B", 0>>, <<"downlink", "S", 0>> }
    /\ Len(call.ret.schedule) = 3
    /\ call.ret.schedule[1]["type"] = "observation"
    /\ call.ret.schedule[2]["type"] = "downlink"
    /\ call.ret.schedule[3]["target_id"] = "A"

\* two activities overlap in time, as _check_overlaps tests it
Overlap(act1, act2) ==
    /\ act1["start_time"] < act2["end_time"]
    /\ act2["start_time"] < act1["end_time"]

\* C26: no two activities in a schedule returned by
\* SpacecraftMissionPlanner.solve overlap in time: of every two distinct
\* activities one ends no later than the other starts
C26_NoTwoActivitiesOverlap ==
    (kind = "SpacecraftMissionPlanner" /\ call.op = "solve") =>
        \A i, j \in 1..Len(call.ret.schedule) :
            i < j => ~Overlap(call.ret.schedule[i], call.ret.schedule[j])

\* the variables of the observation opportunities, all of which an optimal
\* answer sets true: each adds int(priority * 100) > 0 to the maximised sum
\* and no constraint ties them
ObservationVars ==
    { ObsInfo(config, Len(config.ground_targets))[i].var_name :
        i \in 1..Len(ObsInfo(config, Len(config.ground_targets))) }

\* an optimal answer of the solver whose schedule observes two targets at the
\* same time
C26_OptimalScheduleOverlaps ==
    /\ kind = "SpacecraftMissionPlanner"
    /\ call.op = "solve"
    /\ call.arg.status = "OPTIMAL"
    /\ ObservationVars \subseteq call.arg.true_vars
    /\ \E i, j \in 1..Len(call.ret.schedule) :
         /\ i < j
         /\ call.ret.schedule[i]["type"] = "observation"
         /\ call.ret.schedule[j]["type"] = "observation"
         /\ Overlap(call.ret.schedule[i], call.ret.schedule[j])

\* the Solution solve() returns when the solver finds no assignment
EmptySolution ==
    IF kind = "AircraftMissionPlanner" THEN AircraftEmptySolution
    ELSE SpacecraftEmptySolution

\* validate_solution was called on the empty Solution a failed solve() returned
ValidatedEmptySolution ==
    /\ kind \in {"AircraftMissionPlanner", "SpacecraftMissionPlanner"}
    /\ call.op = "validate_solution"
    /\ returned = EmptySolution
    /\ call.arg = returned

\* C27: the empty Solution that solve() returns when the solver finds no
\* assignment passes validate_solution with is_valid = true and an empty
\* violation list, for the aircraft planner (battery_capacity >= 0) and for
\* the spacecraft planner
C27_EmptySolutionValidates ==
    ValidatedEmptySolution => call.ret = << TRUE, <<>> >>

\* an aircraft planner with a no-fly zone and an empty battery whose solve()
\* found no assignment, and whose empty Solution then validated
C27_Witness ==
    /\ ValidatedEmptySolution
    /\ kind = "AircraftMissionPlanner"
    /\ config.no_fly_zones # <<>>
    /\ config.aircraft_params.battery_capacity = RZero
    /\ Len(constraints) = 4
    /\ solution = None
    /\ call.ret = << TRUE, <<>> >>

\* C28: over any sequence of calls, planner.solution is assigned only by a
\* solve() whose solver returned an assignment, and then to the solution
\* returned; a solve() without assignment leaves it unchanged; and
\* validate_solution, compute_objective_value and get_metrics never change
\* planner.solution, planner.constraints or planner.objectives
C28_SolutionAssignedOnlyBySuccessfulSolve ==
    [][ /\ solution' # solution =>
              /\ call'.op = "solve"
              /\ SolverAssigned(call'.arg)
              /\ solution' = call'.ret
        /\ (call'.op = "solve" /\ ~SolverAssigned(call'.arg)) => solution' = solution
        /\ call'.op \in {"validate_solution", "compute_objective_value", "get_metrics"} =>
              solution' = solution
        /\ constraints' = constraints
        /\ objectives' = objectives ]_vars

\* a planner that was Solved, whose next solve() found no assignment, and on
\* whose kept solution get_metrics was then called
C28_Witness ==
    /\ kind \in {"AircraftMissionPlanner", "SpacecraftMissionPlanner"}
    /\ solution # None
    /\ returned = EmptySolution
    /\ solution # returned
    /\ call.op = "get_metrics"
    /\ call.arg = solution
    /\ call.ret.is_valid

\* the visibility window of boolean variable v = (obs or downlink, location
\* name, window index)
WindowOf(v) ==
    IF v[1] = "obs"
    THEN config.target_windows[v[2]][v[3] + 1]
    ELSE config.station_windows[v[2]][v[3] + 1]

\* the window lists the planner detected, of its targets and of its stations
WindowLists ==
    { config.target_windows[n] : n \in DOMAIN config.target_windows }
    \cup { config.station_windows[n] : n \in DOMAIN config.station_windows }

\* C29: over a horizon of whole days every detected window spans at least one
\* 60 s sample interval, and every activity of a schedule returned by solve()
\* lies inside its visibility window: it starts at the window's start and
\* start_time < end_time <= window end
C29_ActivityInsideItsWindow ==
    (kind = "SpacecraftMissionPlanner" /\ call.op = "solve") =>
        /\ \A ws \in WindowLists :
             \A i \in 1..Len(ws) : ws[i][2] - ws[i][1] >= DT
        /\ \A i \in 1..Len(call.ret.schedule) :
             \E v \in call.arg.true_vars :
                 /\ ActivityOf(call.ret.schedule[i], v)
                 /\ call.ret.schedule[i]["start_time"] = WindowOf(v)[1]
                 /\ call.ret.schedule[i]["start_time"] < call.ret.schedule[i]["end_time"]
                 /\ call.ret.schedule[i]["end_time"] <= WindowOf(v)[2]

\* a schedule with a downlink that fills its 60 s window, and an observation in
\* the window that the end of the horizon closed
C29_Witness ==
    /\ kind = "SpacecraftMissionPlanner"
    /\ call.op = "solve"
    /\ call.arg.true_vars = { <<"obs", "A", 1>>, <<"downlink", "S", 0>> }
    /\ WindowOf(<<"downlink", "S", 0>>) = <<DT, 2 * DT>>
    /\ WindowOf(<<"obs", "A", 1>>)[2] = EndTime(config.mission_duration_days)
    /\ Len(call.ret.schedule) = 2
    /\ call.ret.schedule[1]["end_time"] = WindowOf(<<"downlink", "S", 0>>)[2]

(***************************************************************************)
(* aircraft/models.py and aircraft/simulator.py: the flight simulation     *)
(*                                                                         *)
(* Flights run along the x axis at constant altitude with the wind along   *)
(* the same axis, max_speed a multiple of 5 and dt = 1, so positions and   *)
(* velocities are whole numbers; energies stay rationals.                  *)
(***************************************************************************)
\* a tolerance that no distance is below
Tolerance_Zero == 5 - 5

MaxIterations == 10000
Tolerance == 5
SimDt == 1

\* np.sin and np.cos at 0, 1 and 2 radians, to three decimals
Sin(r) ==
    CASE r = RInt(0) -> RZero
      [] r = RInt(1) -> Rat(841, 1000)
      [] r = RInt(2) -> Rat(909, 1000)

Cos(r) ==
    CASE r = RInt(0) -> RInt(1)
      [] r = RInt(1) -> Rat(540, 1000)
      [] r = RInt(2) -> Rat(-416, 1000)

\* np.random.RandomState(seed): the generator state the seed determines
RandomState(seed) == seed

\* WindModel.__init__
WindModel(wind_type, base_wind, seed) ==
    [wind_type |-> wind_type, base_wind |-> base_wind, rng |-> RandomState(seed)]

\* base_wind + variation, a float array
WindPlus(base_wind, variation) ==
    << RAdd(RInt(base_wind[1]), variation[1]),
       RAdd(RInt(base_wind[2]), variation[2]),
       RAdd(RInt(base_wind[3]), variation[3]) >>

\* a get_wind that adds a gust drawn from self.rng to the base wind
get_wind_Gusty(self, position, time) ==
    [ret      |-> <<self.base_wind[1] + (self.rng % 3), self.base_wind[2], self.base_wind[3]>>,
     self     |-> [self EXCEPT !.rng = self.rng + 1],
     position |-> position]

\* WindModel.get_wind: the vector returned, and the instance and the
\* caller's position array as the call leaves them
get_wind(self, position, time) ==
    [ret |->
        IF self.wind_type = "constant" THEN self.base_wind
        ELSE IF self.wind_type = "spatial"
        THEN WindPlus(self.base_wind,
                      << RMul(Rat(1, 10), Sin(Rat(position[1], 1000))),
                         RMul(Rat(1, 10), Cos(Rat(position[2], 1000))),
                         RZero >>)
        ELSE IF self.wind_type = "temporal"
        THEN WindPlus(self.base_wind,
                      << RMul(Rat(1, 5), Sin(Rat(time, 100))),
                         RMul(Rat(1, 5), Cos(Rat(time, 100))),
                         RZero >>)
        ELSE self.base_wind,
     self     |-> self,
     position |-> position]

VAdd3(a, b) == <<a[1] + b[1], a[2] + b[2], a[3] + b[3]>>

VScale3(a, k) == <<a[1] * k, a[2] * k, a[3] * k>>

\* a compute_energy_rate that charges the base power only
compute_energy_rate_BaseOnly(cfg, st) == cfg.params.power_consumption_base

\* FlightDynamics.compute_energy_rate
compute_energy_rate(cfg, st) ==
    LET speed == Norm3(st.velocity)
        drag  == RMul(RMul(Rat(1, 2), cfg.params.drag_coefficient),
                      RMul(speed, RMul(speed, speed)))
        climb == IF st.velocity[3] > 0
                 THEN RMul(RMul(cfg.params.mass, Rat(981, 100)), RInt(st.velocity[3]))
                 ELSE RZero
    IN  RAdd(RAdd(cfg.params.power_consumption_base, drag), climb)

\* FlightDynamics.propagate
propagate(cfg, st, control_velocity, dt) ==
    LET wind == get_wind(cfg.wind_model, st.position, st.time).ret
        ground_velocity == VAdd3(control_velocity, wind)
        new_position == VAdd3(st.position, VScale3(ground_velocity, dt))
        new_heading ==
            IF RLess(Rat(1, 10), Norm2(XY(ground_velocity)))
            THEN IF ground_velocity[1] > 0 THEN "0" ELSE "pi"
            ELSE st.heading
        energy_consumed == RMul(compute_energy_rate(cfg, st), RInt(dt))
    IN  [time |-> st.time + dt,
         position |-> new_position,
         velocity |-> ground_velocity,
         heading |-> new_heading,
         energy_remaining |-> RSub(st.energy_remaining, energy_consumed)]

Sign(x) == IF x > 0 THEN 1 ELSE IF x < 0 THEN -1 ELSE 0

\* desired_velocity of simulate_to_target: direction * speed with the vertical
\* component clipped to the climb and descent limits
DesiredVelocity(cfg, st, target, dt) ==
    LET delta == VSub3(target, st.position)
        distance == RFloor(Norm3(delta))
        speed == Min2(RFloor(CruiseSpeed(cfg.params)), distance \div dt)
    IN  << Sign(delta[1]) * speed, 0, 0 >>

InitialState(cfg) ==
    [time |-> 0,
     position |-> cfg.waypoints[1],
     velocity |-> << RFloor(CruiseSpeed(cfg.params)), 0, 0 >>,
     heading |-> "0",
     energy_remaining |-> cfg.params.battery_capacity]

\* check_violations after the first k states: <<violations, stopped>>, where
\* stopped records the break on depleted energy
RECURSIVE CheckViolationsLoop(_, _, _)
CheckViolationsLoop(cfg, states, k) ==
    IF k = 0 THEN << <<>>, FALSE >>
    ELSE LET prev == CheckViolationsLoop(cfg, states, k - 1)
             st == states[k]
         IN  IF prev[2] THEN prev
             ELSE IF RLess(st.energy_remaining, RZero)
                  THEN << Append(prev[1], <<"Energy depleted", st.time>>), TRUE >>
                  ELSE << prev[1]
                          \o (IF RLess(cfg.params.max_speed, Norm3(st.velocity))
                              THEN << <<"Speed limit exceeded", st.time>> >>
                              ELSE << >>)
                          \o (IF RLess(cfg.params.max_climb_rate, RInt(Abs(st.velocity[3])))
                              THEN << <<"Climb rate exceeded", st.time>> >>
                              ELSE << >>),
                          FALSE >>

check_violations(cfg, states) == CheckViolationsLoop(cfg, states, Len(states))[1]

Last(q) == q[Len(q)]

SimParamsChoices ==
    { [max_speed |-> RInt(25), max_climb_rate |-> RInt(3), max_descent_rate |-> RInt(5),
       mass |-> RInt(5), drag_coefficient |-> Rat(3, 10),
       power_consumption_base |-> RInt(100), battery_capacity |-> cap] :
        cap \in { RInt(2000), RInt(5000) } }

SimWaypointLists ==
    SeqsUpTo({ <<0, 0, 100>>, <<40, 0, 100>>, <<60, 0, 100>> }, MaxWaypoints)

SimConfigs ==
    [params : SimParamsChoices,
     wind_model : { WindModel("constant", w, 42) :
                      w \in { <<0, 0, 0>>, <<5, 0, 0>>, <<-5, 0, 0>> } },
     waypoints : SimWaypointLists]

InitSim ==
    /\ sim_pc = "start"
    /\ sim_config \in SimConfigs
    /\ all_states = <<>>
    /\ segment = 0
    /\ segment_states = <<>>
    /\ iteration = 0
    /\ current_state = None
    /\ sim_result = None

InitSpecSim ==
    /\ InitSim
    /\ IdleConstraintVars
    /\ IdleObjectiveVars
    /\ IdlePlannerVars
    /\ IdleWindowVars
    /\ IdleMCVars
    /\ IdleExtraVars

\* simulate_mission up to the first segment: the early return for fewer than
\* two waypoints, or the initial state
SimBegin ==
    /\ sim_pc = "start"
    /\ IF Len(sim_config.waypoints) < 2
       THEN /\ sim_result' = [trajectory |-> <<>>, states |-> <<>>, times |-> <<>>,
                              total_time |-> RZero, total_energy |-> RZero,
                              constraint_violations |-> <<>>]
            /\ sim_pc' = "done"
            /\ UNCHANGED all_states
       ELSE /\ all_states' = << InitialState(sim_config) >>
            /\ sim_pc' = "segment"
            /\ UNCHANGED sim_result
    /\ UNCHANGED <<sim_config, segment, segment_states, iteration, current_state>>
    /\ UNCHANGED <<cvars, ovars, pvars, wvars, mvars, xvars>>

\* the head of the for loop: the call of simulate_to_target for segment i
SegmentBegin ==
    /\ sim_pc = "segment"
    /\ segment < Len(sim_config.waypoints) - 1
    /\ segment_states' = <<>>
    /\ current_state' = Last(all_states)
    /\ iteration' = 0
    /\ sim_pc' = "loop"
    /\ UNCHANGED <<sim_config, all_states, segment, sim_result>>
    /\ UNCHANGED <<cvars, ovars, pvars, wvars, mvars, xvars>>

\* one iteration of simulate_to_target's loop, or the loop's end
Iterate ==
    /\ sim_pc = "loop"
    /\ LET target == sim_config.waypoints[segment + 2]
           distance == Norm3(VSub3(target, current_state.position))
           next_state == propagate(sim_config, current_state,
                                   DesiredVelocity(sim_config, current_state, target, SimDt),
                                   SimDt)
       IN  IF iteration >= MaxIterations \/ RLess(distance, RInt(Tolerance))
           THEN /\ sim_pc' = "return"
                /\ UNCHANGED <<segment_states, current_state, iteration>>
           ELSE /\ segment_states' = Append(segment_states, next_state)
                /\ current_state' = next_state
                /\ iteration' = iteration + 1
                /\ sim_pc' = IF ~RLess(RZero, next_state.energy_remaining)
                             THEN "return" ELSE "loop"
    /\ UNCHANGED <<sim_config, all_states, segment, sim_result>>
    /\ UNCHANGED <<cvars, ovars, pvars, wvars, mvars, xvars>>

\* back in simulate_mission: the segment's states join all_states
SegmentEnd ==
    /\ sim_pc = "return"
    /\ all_states' = all_states \o segment_states
    /\ segment' = segment + 1
    /\ sim_pc' = "segment"
    /\ UNCHANGED <<sim_config, segment_states, iteration, current_state, sim_result>>
    /\ UNCHANGED <<cvars, ovars, pvars, wvars, mvars, xvars>>

\* after the for loop: metrics, check_violations and the return value
SimFinish ==
    /\ sim_pc = "segment"
    /\ ~(segment < Len(sim_config.waypoints) - 1)
    /\ sim_result' =
         [trajectory |-> [i \in 1..Len(all_states) |-> all_states[i].position],
          states |-> all_states,
          times |-> [i \in 1..Len(all_states) |-> all_states[i].time],
          total_time |-> Last(all_states).time,
          total_energy |-> RSub(sim_config.params.battery_capacity,
                                Last(all_states).energy_remaining),
          constraint_violations |-> check_violations(sim_config, all_states),
          energy_remaining |-> Last(all_states).energy_remaining]
    /\ sim_pc' = "done"
    /\ UNCHANGED <<sim_config, all_states, segment, segment_states, iteration, current_state>>
    /\ UNCHANGED <<cvars, ovars, pvars, wvars, mvars, xvars>>

NextSim == SimBegin \/ SegmentBegin \/ Iterate \/ SegmentEnd \/ SimFinish

SpecSim == InitSpecSim /\ [][NextSim]_vars

\* every state the simulation has produced so far, in order
Produced ==
    IF sim_pc \in {"loop", "return"} THEN all_states \o segment_states ELSE all_states

\* C7: in simulate_mission, once a propagated state has energy_remaining <= 0
\* no further state is propagated or appended: a state with exhausted energy
\* is the last state produced, however many waypoints remain.
C7_NoStateAfterExhaustion ==
    \A k \in 1..Len(Produced) :
        ~RLess(RZero, Produced[k].energy_remaining) => k = Len(Produced)

(***************************************************************************)
(* validation/aircraft_validation.py: monte_carlo_wind_test                *)
(*                                                                         *)
(* The trials are the bodies of the for loop, run by workers in any order. *)
(***************************************************************************)
\* the number numpy's process-wide generator yields in state s; every draw
\* moves the generator to state s + 1
Randn(s) == ((s * 3) % 5) - 2

\* trial_wind: base_wind with np.random.randn(2) * 2.0 added to its first two
\* components, the generator being in state s
TrialWind(base_wind, s) ==
    << RAdd(base_wind[1], RMul(RInt(Randn(s)), RInt(2))),
       RAdd(base_wind[2], RMul(RInt(Randn(s + 1)), RInt(2))),
       base_wind[3] >>

DefaultBaseWind == << RInt(3), RInt(2), RZero >>

Scenarios ==
    { [aircraft_params |-> [max_speed |-> RInt(25), max_turn_rate |-> RInt(30),
                            power_consumption_base |-> RInt(100),
                            battery_capacity |-> RInt(1800000)],
       waypoints |-> w,
       no_fly_zones |-> <<>>,
       base_wind |-> DefaultBaseWind,
       num_trials |-> n] :
        w \in { << Depot, <<117, 0, 50>> >>, << Depot, <<117, 0, 50>>, <<0, 240, 50>> >> },
        n \in 1..MaxTrials }

Trials == 0..(scenario.num_trials - 1)

InitMC ==
    /\ scenario \in Scenarios
    /\ np_random \in {0, 1}
    /\ trial_pc = [t \in Trials |-> "draw"]
    /\ trial_wind = [t \in Trials |-> None]
    /\ trial_solution = [t \in Trials |-> None]
    /\ trial_valid = [t \in Trials |-> None]
    /\ results = <<>>

InitSpecMC ==
    /\ InitMC
    /\ IdleConstraintVars
    /\ IdleObjectiveVars
    /\ IdlePlannerVars
    /\ IdleWindowVars
    /\ IdleSimVars
    /\ IdleExtraVars

\* "generate random wind variation": the draw from numpy's global generator
DrawWind ==
    \E t \in Trials :
        /\ trial_pc[t] = "draw"
        /\ trial_wind' = [trial_wind EXCEPT ![t] = TrialWind(scenario.base_wind, np_random)]
        /\ np_random' = np_random + 2
        /\ trial_pc' = [trial_pc EXCEPT ![t] = "solve"]
        /\ UNCHANGED <<scenario, trial_solution, trial_valid, results>>
        /\ UNCHANGED <<cvars, ovars, pvars, wvars, svars, xvars>>

\* the trial's WindModel and planner are built and planner.solve() runs
SolveTrial ==
    \E t \in Trials :
        /\ trial_pc[t] = "solve"
        /\ \E resp \in {NoAssignment} \cup RoutingAssignments(Len(scenario.waypoints)) :
             trial_solution' =
               [trial_solution EXCEPT ![t] =
                  IF resp.assignment THEN AircraftSolution(scenario, resp)
                  ELSE AircraftEmptySolution]
        /\ trial_pc' = [trial_pc EXCEPT ![t] = "validate"]
        /\ UNCHANGED <<scenario, np_random, trial_wind, trial_valid, results>>
        /\ UNCHANGED <<cvars, ovars, pvars, wvars, svars, xvars>>

\* planner.validate_solution(solution) and the trial's entry in results
ValidateTrial ==
    \E t \in Trials :
        /\ trial_pc[t] = "validate"
        /\ trial_valid' =
             [trial_valid EXCEPT ![t] =
                validate_solution(AircraftPlanner_define_constraints(scenario),
                                  trial_solution[t])]
        /\ results' =
             Append(results,
                    [trial |-> t,
                     wind |-> trial_wind[t],
                     success |-> validate_solution(AircraftPlanner_define_constraints(scenario),
                                                   trial_solution[t])[1],
                     total_time |-> trial_solution[t].total_time,
                     total_energy |-> trial_solution[t].total_energy,
                     distance |-> trial_solution[t].distance,
                     violations |-> validate_solution(AircraftPlanner_define_constraints(scenario),
                                                      trial_solution[t])[2]])
        /\ trial_pc' = [trial_pc EXCEPT ![t] = "done"]
        /\ UNCHANGED <<scenario, np_random, trial_wind, trial_solution>>
        /\ UNCHANGED <<cvars, ovars, pvars, wvars, svars, xvars>>

NextMC == DrawWind \/ SolveTrial \/ ValidateTrial

SpecMC == InitSpecMC /\ [][NextMC]_vars

\* the state numpy's generator was in before the first trial drew
InitialRandomState ==
    np_random - 2 * Cardinality({ t \in Trials : trial_pc[t] # "draw" })

\* C8: whatever the order in which the trials run, every trial has the wind
\* input of the sequential run (trial t drawing after trials 0..t-1), and its
\* solution and validation are those the planner gives for the scenario.
C8_TrialsMatchSequentialRun ==
    \A t \in Trials :
        /\ trial_pc[t] # "draw" =>
             trial_wind[t] = TrialWind(scenario.base_wind, InitialRandomState + 2 * t)
        /\ trial_pc[t] = "done" =>
             /\ trial_solution[t] \in
                  { AircraftEmptySolution } \cup
                  { AircraftSolution(scenario, a) :
                      a \in RoutingAssignments(Len(scenario.waypoints)) }
             /\ trial_valid[t] =
                  validate_solution(AircraftPlanner_define_constraints(scenario),
                                    trial_solution[t])

(***************************************************************************)
(* core/constraints.py: ConstraintValidator                                *)
(***************************************************************************)
\* getattr(constraint, 'violation_penalty', 1.0)
PenaltyOf(c) ==
    IF "violation_penalty" \in DOMAIN c THEN c.violation_penalty ELSE RInt(1)

\* validate_all's violations list after the first k constraints; an entry
\* stands for the string "<name>: violation = <amount>"
RECURSIVE ValidateAllLoop(_, _, _)
ValidateAllLoop(cs, s, k) ==
    IF k = 0 THEN <<>>
    ELSE LET prev == ValidateAllLoop(cs, s, k - 1)
             r == Evaluate(cs[k], s)
         IN  IF ~r[1] /\ cs[k].constraint_type = "hard"
             THEN Append(prev, <<cs[k].name, r[2]>>)
             ELSE prev

validate_all(cs, s) ==
    <<Len(ValidateAllLoop(cs, s, Len(cs))) = 0, ValidateAllLoop(cs, s, Len(cs))>>

\* total_penalty after the first k constraints
RECURSIVE PenaltyLoop(_, _, _)
PenaltyLoop(cs, s, k) ==
    IF k = 0 THEN RZero
    ELSE IF cs[k].constraint_type = "soft" /\ ~Evaluate(cs[k], s)[1]
         THEN RAdd(PenaltyLoop(cs, s, k - 1),
                   RMul(PenaltyOf(cs[k]), Evaluate(cs[k], s)[2]))
         ELSE PenaltyLoop(cs, s, k - 1)

\* total_penalty counting the constraints of either kind
RECURSIVE PenaltyLoop_AnyKind(_, _, _)
PenaltyLoop_AnyKind(cs, s, k) ==
    IF k = 0 THEN RZero
    ELSE IF ~Evaluate(cs[k], s)[1]
         THEN RAdd(PenaltyLoop_AnyKind(cs, s, k - 1),
                   RMul(PenaltyOf(cs[k]), Evaluate(cs[k], s)[2]))
         ELSE PenaltyLoop_AnyKind(cs, s, k - 1)

compute_penalty_AnyKind(cs, s) == PenaltyLoop_AnyKind(cs, s, Len(cs))

compute_penalty(cs, s) == PenaltyLoop(cs, s, Len(cs))

\* the constraint lists and state bags handed to the validator
ValidatorConstraints ==
    GenericConstraints
    \cup DownlinkConstraints
    \cup { c \in ResourceConstraints :
             c.initial_amount = RInt(2) /\ c.minimum_amount = RInt(3) }

ValidatorStates ==
    { EmptyDict }
    \cup { [value |-> v, total_energy |-> RInt(10), battery_level |-> RInt(b), schedule |-> sc] :
             v \in { RInt(1), RInt(3) }, b \in {0, 3},
             sc \in { <<>>,
                      << Item("observation", 0, 30, [target_id |-> "A"]),
                         Item("observation", 60, 30, [target_id |-> "B"]) >>,
                      << Item("observation", 0, 30, [target_id |-> "A"]),
                         Item("downlink", 200, 60, [observation_ids |-> <<"A">>]) >> } }

InitValidator ==
    \E cs \in SeqsUpTo(ValidatorConstraints, MaxConstraints) :
        /\ kind = "ConstraintValidator"
        /\ config = EmptyDict
        /\ constraints = cs
        /\ objectives = <<>>
        /\ solution = None
        /\ returned = None
        /\ call = NoCall

InitSpecValidator ==
    /\ InitValidator
    /\ IdleConstraintVars
    /\ IdleObjectiveVars
    /\ IdleWindowVars
    /\ IdleSimVars
    /\ IdleMCVars
    /\ IdleExtraVars

\* ConstraintValidator.validate_all
ValidateAll ==
    /\ kind = "ConstraintValidator"
    /\ \E s \in ValidatorStates :
         call' = [op |-> "validate_all", arg |-> s, ret |-> validate_all(constraints, s)]
    /\ UNCHANGED <<kind, config, constraints, objectives, solution, returned>>
    /\ UNCHANGED <<cvars, ovars, wvars, svars, mvars, xvars>>

\* ConstraintValidator.compute_penalty
ComputePenalty ==
    /\ kind = "ConstraintValidator"
    /\ \E s \in ValidatorStates :
         call' = [op |-> "compute_penalty", arg |-> s, ret |-> compute_penalty(constraints, s)]
    /\ UNCHANGED <<kind, config, constraints, objectives, solution, returned>>
    /\ UNCHANGED <<cvars, ovars, wvars, svars, mvars, xvars>>

NextValidator == ValidateAll \/ ComputePenalty

SpecValidator == InitSpecValidator /\ [][NextValidator]_vars

\* the positions of the soft constraints not satisfied on state bag s
ViolatedSoft(s) ==
    { i \in 1..Len(constraints) :
        constraints[i].constraint_type = "soft" /\ ~Evaluate(constraints[i], s)[1] }

\* C11: compute_penalty returns the sum, over the soft constraints that are
\* not satisfied on the state, of the constraint's penalty weight (its
\* violation_penalty, 1.0 for a constraint class that carries none) times its
\* violation magnitude; hard constraints and satisfied soft constraints
\* add nothing.
C11_PenaltyIsWeightedSoftSum ==
    call.op = "compute_penalty" =>
        call.ret =
          RSum([i \in 1..Len(constraints) |->
                  RMul(PenaltyOf(constraints[i]), Evaluate(constraints[i], call.arg)[2])],
               ViolatedSoft(call.arg))

\* a penalty computed over a violated hard constraint and a violated soft
\* constraint whose weight is not 1
C11_Witness ==
    /\ call.op = "compute_penalty"
    /\ \E i, j \in 1..Len(constraints) :
         /\ constraints[i].constraint_type = "hard"
         /\ ~Evaluate(constraints[i], call.arg)[1]
         /\ j \in ViolatedSoft(call.arg)
         /\ PenaltyOf(constraints[j]) = RInt(10)
    /\ call.ret = RInt(20)

(***************************************************************************)
(* aircraft/models.py: a WindModel instance queried by its caller          *)
(***************************************************************************)
MaxCalls == 3

WindTypes == {"constant", "spatial", "temporal", "gusty"}

WindPositions == { <<0, 0, 100>>, <<1000, 2000, 100>>, <<2000, 0, 100>> }

WindTimes == {0, 100, 200}

InitWind ==
    /\ wind_model \in { WindModel(ty, w, seed) :
                          ty \in WindTypes, w \in { <<0, 0, 0>>, <<3, 2, 0>> },
                          seed \in {0, 42} }
    /\ caller_position \in WindPositions
    /\ wind_calls = <<>>

InitSpecWind ==
    /\ InitWind
    /\ IdlePathVars
    /\ IdleConstraintVars
    /\ IdleObjectiveVars
    /\ IdlePlannerVars
    /\ IdleWindowVars
    /\ IdleSimVars
    /\ IdleMCVars

\* wind = self.wind_model.get_wind(position, time)
GetWind ==
    /\ Len(wind_calls) < MaxCalls
    /\ \E time \in WindTimes :
         LET r == get_wind(wind_model, caller_position, time)
         IN  /\ wind_model' = r.self
             /\ caller_position' = r.position
             /\ wind_calls' = Append(wind_calls,
                                     [self |-> wind_model, position |-> caller_position,
                                      time |-> time, ret |-> r.ret,
                                      self_after |-> r.self, position_after |-> r.position])
    /\ UNCHANGED <<cvars, ovars, pvars, wvars, svars, mvars, avars>>

\* the caller goes on to another position between two calls
CallerMoves ==
    /\ \E p \in WindPositions \ {caller_position} : caller_position' = p
    /\ UNCHANGED <<wind_model, wind_calls>>
    /\ UNCHANGED <<cvars, ovars, pvars, wvars, svars, mvars, avars>>

NextWind == GetWind \/ CallerMoves

SpecWind == InitSpecWind /\ [][NextWind]_vars

\* C14: every get_wind call leaves the instance (base_wind and the random
\* generator among its fields) and the caller's position array as it found
\* them; any two calls of the sequence with the same position and time
\* returned equal vectors; and the constant variant returns base_wind for
\* every position and time.
C14_GetWindPureAndDeterministic ==
    /\ \A k \in 1..Len(wind_calls) :
         /\ wind_calls[k].self_after = wind_calls[k].self
         /\ wind_calls[k].position_after = wind_calls[k].position
         /\ wind_calls[k].self.wind_type = "constant" =>
                wind_calls[k].ret = wind_calls[k].self.base_wind
    /\ \A j, k \in 1..Len(wind_calls) :
         (wind_calls[j].position = wind_calls[k].position
            /\ wind_calls[j].time = wind_calls[k].time)
         => wind_calls[j].ret = wind_calls[k].ret

\* a time-varying wind model asked twice for the same position and time with
\* a call for another time in between
C14_Witness ==
    /\ Len(wind_calls) = 3
    /\ wind_model.wind_type = "temporal"
    /\ wind_calls[1].position = wind_calls[3].position
    /\ wind_calls[1].time = wind_calls[3].time
    /\ wind_calls[2].time # wind_calls[1].time
    /\ wind_calls[2].ret # wind_calls[1].ret

(***************************************************************************)
(* aircraft/planner.py: simulate_path, statement by statement, with the    *)
(* AircraftState object it creates                                         *)
(***************************************************************************)
\* the paths solve() hands to simulate_path, and the paths too short to fly
PathsOf(cfg) ==
    { <<>>, <<cfg.waypoints[1]>> }
    \cup { [i \in 1..Len(ExtractRoute(a)) |-> cfg.waypoints[ExtractRoute(a)[i] + 1]] :
             a \in RoutingAssignments(Len(cfg.waypoints)) }

InitPath ==
    /\ path_pc = "entry"
    /\ path_config \in AircraftConfigs
    /\ path_arg \in PathsOf(path_config)
    /\ path_i = 0
    /\ path_state = None
    /\ path_state_created = None
    /\ path_times = <<>>
    /\ path_total_energy = RZero

InitSpecPath ==
    /\ InitPath
    /\ IdleWindVars
    /\ IdleConstraintVars
    /\ IdleObjectiveVars
    /\ IdlePlannerVars
    /\ IdleWindowVars
    /\ IdleSimVars
    /\ IdleMCVars

\* the AircraftState simulate_path creates at the first waypoint
PathInitialState(cfg, p) ==
    [time |-> RZero,
     position |-> p[1],
     velocity |-> <<CruiseSpeed(cfg.aircraft_params), RZero, RZero>>,
     heading |-> RZero,
     energy_remaining |-> cfg.aircraft_params.battery_capacity]

\* simulate_path up to the loop: the early return, or state, times, total_energy
PathBegin ==
    /\ path_pc = "entry"
    /\ IF Len(path_arg) < 2
       THEN /\ path_pc' = "returned"
            /\ path_times' = <<RZero>>
            /\ UNCHANGED <<path_state, path_state_created>>
       ELSE /\ path_pc' = "loop"
            /\ path_times' = <<RZero>>
            /\ path_state' = PathInitialState(path_config, path_arg)
            /\ path_state_created' = PathInitialState(path_config, path_arg)
    /\ path_total_energy' = RZero
    /\ UNCHANGED <<path_config, path_arg, path_i>>
    /\ UNCHANGED <<cvars, ovars, pvars, wvars, svars, mvars, gvars>>

\* one iteration of the loop over the segments
PathSegment ==
    /\ path_pc = "loop"
    /\ path_i < Len(path_arg) - 1
    /\ LET start == path_arg[path_i + 1]
           end   == path_arg[path_i + 2]
           seg   == simulate_segment(path_config, start, end)
       IN  /\ path_state' = [path_state EXCEPT
                               !.time = RAdd(path_state.time, seg[1]),
                               !.position = end,
                               !.energy_remaining = RSub(path_state.energy_remaining, seg[2])]
           /\ path_times' = Append(path_times, RAdd(path_state.time, seg[1]))
           /\ path_total_energy' = RAdd(path_total_energy, seg[2])
    /\ path_i' = path_i + 1
    /\ UNCHANGED <<path_pc, path_config, path_arg, path_state_created>>
    /\ UNCHANGED <<cvars, ovars, pvars, wvars, svars, mvars, gvars>>

\* return times, total_energy
PathReturn ==
    /\ path_pc = "loop"
    /\ path_i = Len(path_arg) - 1
    /\ path_pc' = "returned"
    /\ UNCHANGED <<path_config, path_arg, path_i, path_state, path_state_created,
                   path_times, path_total_energy>>
    /\ UNCHANGED <<cvars, ovars, pvars, wvars, svars, mvars, gvars>>

NextPath == PathBegin \/ PathSegment \/ PathReturn

SpecPath == InitSpecPath /\ [][NextPath]_vars

\* the statements of simulate_path return what the operator simulate_path does
PathAgreesWithSimulatePath ==
    path_pc = "returned" =>
        <<path_times, path_total_energy>> = simulate_path(path_config, path_arg)

\* C15: an AircraftState is never modified after it is created: the state
\* object of simulate_path holds, at every later point, the field values it
\* was created with.
C15_StateNeverModified ==
    path_state # None => path_state = path_state_created

\* ---------------------------------------------------------------------------
\* aircraft/models.py: FlightDynamics.propagate called directly
\* ---------------------------------------------------------------------------

\* the dynamics objects: the default parameters with either battery, and a
\* constant wind that is zero or 5 m/s along x
DynamicsConfigs ==
    [params : SimParamsChoices,
     wind_model : { WindModel("constant", w, 42) : w \in { <<0, 0, 0>>, <<5, 0, 0>> } },
     waypoints : { <<>> }]

\* the states a caller starts from: at rest, cruising, climbing, descending
DynamicsVelocities == { <<0, 0, 0>>, <<20, 0, 0>>, <<0, 0, 2>>, <<0, 0, -2>> }

\* commanded airspeeds (v, 0, 0) and time steps
ControlSpeeds == { -10, 0, 10, 20 }

TimeSteps == { 1, 2 }

InitDynamics ==
    /\ sim_pc = "dynamics"
    /\ sim_config \in DynamicsConfigs
    /\ \E vel \in DynamicsVelocities :
         current_state = [time |-> 0,
                          position |-> <<0, 0, 100>>,
                          velocity |-> vel,
                          heading |-> "0",
                          energy_remaining |-> sim_config.params.battery_capacity]
    /\ all_states = <<>>
    /\ segment = 0
    /\ segment_states = <<>>
    /\ iteration = 0
    /\ sim_result = None

InitSpecDynamics ==
    /\ InitDynamics
    /\ IdleConstraintVars
    /\ IdleObjectiveVars
    /\ IdlePlannerVars
    /\ IdleWindowVars
    /\ IdleMCVars
    /\ IdleExtraVars

\* one call propagate(state, (v, 0, 0), dt) on the latest state; sim_result
\* keeps the call's arguments and its return value
Propagate ==
    /\ sim_pc = "dynamics"
    /\ iteration < MaxCalls
    /\ \E v \in ControlSpeeds, dt \in TimeSteps :
         LET new_state == propagate(sim_config, current_state, <<v, 0, 0>>, dt)
         IN  /\ sim_result' = [state |-> current_state, v |-> v, dt |-> dt,
                               ret |-> new_state]
             /\ current_state' = new_state
    /\ iteration' = iteration + 1
    /\ UNCHANGED <<sim_pc, sim_config, all_states, segment, segment_states>>
    /\ UNCHANGED <<cvars, ovars, pvars, wvars, mvars, xvars>>

NextDynamics == Propagate

SpecDynamics == InitSpecDynamics /\ [][NextDynamics]_vars

ZeroWind == sim_config.wind_model.base_wind = <<0, 0, 0>>

Propagated == sim_pc = "dynamics" /\ sim_result # None

\* the kinematic part of a zero-wind step: x advanced by v * dt, y and altitude
\* kept, time advanced by dt
StepAdvances ==
    /\ sim_result.ret.position =
         << sim_result.state.position[1] + sim_result.v * sim_result.dt,
            sim_result.state.position[2],
            sim_result.state.position[3] >>
    /\ sim_result.ret.time = sim_result.state.time + sim_result.dt

EnergyUsed == RSub(sim_result.state.energy_remaining, sim_result.ret.energy_remaining)

BasePowerTimesDt ==
    RMul(sim_config.params.power_consumption_base, RInt(sim_result.dt))

\* the power drawn at the velocity of the state passed in: base power, drag
\* 0.5 * drag_coefficient * speed^3, and mass * 9.81 * climb rate when climbing
PowerAt(velocity) ==
    LET speed == Norm3(velocity)
    IN  RAdd(RAdd(sim_config.params.power_consumption_base,
                  RMul(RMul(Rat(1, 2), sim_config.params.drag_coefficient),
                       RMul(speed, RMul(speed, speed)))),
             IF velocity[3] > 0
             THEN RMul(RMul(sim_config.params.mass, Rat(981, 100)), RInt(velocity[3]))
             ELSE RZero)

LargeBattery == RInt(2000000)

\* the calls simulate_to_target(initial_state, target, dt): the aircraft at
\* rest at the origin with a full or an empty battery, a target ahead of it or
\* within the tolerance, in still air, head wind or tail wind
ShortTargetCalls ==
    { [params |-> p, wind_model |-> WindModel("constant", w, 42), target |-> tg, dt |-> dt,
       initial_state |-> [time |-> 0, position |-> <<0, 0, 100>>, velocity |-> <<0, 0, 0>>,
                          heading |-> "0", energy_remaining |-> e]] :
        p \in SimParamsChoices,
        w \in { <<0, 0, 0>>, <<5, 0, 0>>, <<-5, 0, 0>> },
        tg \in { <<3, 0, 100>>, <<40, 0, 100>>, <<60, 0, 100>> },
        dt \in TimeSteps,
        e \in { RZero, RInt(2000) } }

\* a call that can neither arrive nor run out of energy: a head wind equal to
\* the cruise speed and the large battery
EndlessTargetCall ==
    [params |-> [max_speed |-> RInt(25), max_climb_rate |-> RInt(3),
                 max_descent_rate |-> RInt(5), mass |-> RInt(5),
                 drag_coefficient |-> Rat(3, 10), power_consumption_base |-> RInt(100),
                 battery_capacity |-> LargeBattery],
     wind_model |-> WindModel("constant", <<-20, 0, 0>>, 42),
     target |-> <<40, 0, 100>>,
     dt |-> 1,
     initial_state |-> [time |-> 0, position |-> <<0, 0, 100>>, velocity |-> <<0, 0, 0>>,
                        heading |-> "0", energy_remaining |-> LargeBattery]]

InitTarget ==
    /\ sim_pc = "call"
    /\ sim_config \in ShortTargetCalls \cup { EndlessTargetCall }
    /\ all_states = <<>>
    /\ segment = 0
    /\ segment_states = <<>>
    /\ iteration = 0
    /\ current_state = None
    /\ sim_result = None

InitSpecFlight ==
    /\ InitSim \/ InitTarget
    /\ IdleConstraintVars
    /\ IdleObjectiveVars
    /\ IdlePlannerVars
    /\ IdleWindowVars
    /\ IdleMCVars
    /\ IdleExtraVars

\* the entry of simulate_to_target: states = [], current_state = initial_state
TargetBegin ==
    /\ sim_pc = "call"
    /\ segment_states' = <<>>
    /\ current_state' = sim_config.initial_state
    /\ iteration' = 0
    /\ sim_pc' = "target_loop"
    /\ UNCHANGED <<sim_config, all_states, segment, sim_result>>
    /\ UNCHANGED <<cvars, ovars, pvars, wvars, mvars, xvars>>

\* one iteration of the for loop of simulate_to_target, or the loop's end and
\* the return of states
TargetIterate ==
    /\ sim_pc = "target_loop"
    /\ LET distance == Norm3(VSub3(sim_config.target, current_state.position))
           next_state == propagate(sim_config, current_state,
                                   DesiredVelocity(sim_config, current_state,
                                                   sim_config.target, sim_config.dt),
                                   sim_config.dt)
       IN  IF iteration >= MaxIterations \/ RLess(distance, RInt(Tolerance))
           THEN /\ sim_pc' = "target_done"
                /\ sim_result' = [states |-> segment_states]
                /\ UNCHANGED <<segment_states, current_state, iteration>>
           ELSE /\ segment_states' = Append(segment_states, next_state)
                /\ current_state' = next_state
                /\ iteration' = iteration + 1
                /\ IF ~RLess(RZero, next_state.energy_remaining)
                   THEN /\ sim_pc' = "target_done"
                        /\ sim_result' = [states |-> Append(segment_states, next_state)]
                   ELSE /\ sim_pc' = "target_loop"
                        /\ UNCHANGED sim_result
    /\ UNCHANGED <<sim_config, all_states, segment>>
    /\ UNCHANGED <<cvars, ovars, pvars, wvars, mvars, xvars>>

NextFlight ==
    \/ SimBegin
    \/ SegmentBegin
    \/ Iterate
    \/ SegmentEnd
    \/ SimFinish
    \/ TargetBegin
    \/ TargetIterate

SpecFlight == InitSpecFlight /\ [][NextFlight]_vars

\* the target of the running simulate_to_target
CurrentTarget ==
    IF sim_pc = "target_loop" THEN sim_config.target
    ELSE sim_config.waypoints[segment + 2]

\* a step of simulate_to_target's loop that propagates: it appends one state
Propagates == Len(segment_states') = Len(segment_states) + 1

\* the segments simulate_mission has still to fly, the running one included
SegmentsLeft == Max2(Len(sim_config.waypoints) - 1 - segment, 0)

\* a measure of the work left: the segments to fly, each worth a whole loop,
\* and within a loop the iterations left
WorkLeft ==
    CASE sim_pc = "start"       -> SegmentsLeft * (10000 + 3) + 2
      [] sim_pc = "segment"     -> SegmentsLeft * (10000 + 3) + 1
      [] sim_pc = "loop"        -> (SegmentsLeft - 1) * (10000 + 3) + 3 + (10000 - iteration)
      [] sim_pc = "return"      -> (SegmentsLeft - 1) * (10000 + 3) + 2
      [] sim_pc = "call"        -> 10000 + 2
      [] sim_pc = "target_loop" -> 10000 - iteration + 1
      [] OTHER                  -> 0

\* the places of the two functions: each but the returns has a next step,
\* which the action of that place takes whatever the data
ProgramPoints ==
    {"start", "segment", "loop", "return", "done", "call", "target_loop", "target_done"}

\* C30: simulate_to_target always terminates, and simulate_mission with it: a
\* call holds at most 10000 propagated states; a state is propagated only
\* while fewer than 10000 were, the aircraft is 5 m or more from the target
\* and the previous propagated state had energy_remaining > 0; and every step
\* lowers a measure of the work left that never falls below zero, at a place
\* of the program that has a next step until the return, so every run
\* reaches its return
C30_SimulationTerminates ==
    /\ [](Len(segment_states) <= 10000 /\ iteration <= 10000)
    /\ [][ Propagates =>
             /\ Len(segment_states) < 10000
             /\ ~RLess(Norm3(VSub3(CurrentTarget, current_state.position)), RInt(5))
             /\ segment_states # <<>> => RLess(RZero, Last(segment_states).energy_remaining)
         ]_vars
    /\ [](WorkLeft >= 0)
    /\ [][WorkLeft' < WorkLeft]_vars
    /\ [](sim_pc \in ProgramPoints)

\* a call that the iteration limit ended: 10000 states returned, the last one
\* short of the target with energy left
IterationLimitEndedCall ==
    /\ sim_pc = "target_done"
    /\ Len(sim_result.states) = MaxIterations
    /\ RLess(RZero, Last(sim_result.states).energy_remaining)
    /\ ~RLess(Norm3(VSub3(sim_config.target, Last(sim_result.states).position)),
              RInt(Tolerance))

\* a call that the battery ended: several states returned, the last one the
\* first without energy and still 5 m or more from the target
C30_Witness ==
    /\ sim_pc = "target_done"
    /\ sim_config.initial_state.energy_remaining = RInt(2000)
    /\ Len(sim_result.states) > 2
    /\ ~RLess(RZero, Last(sim_result.states).energy_remaining)
    /\ RLess(RZero, sim_result.states[Len(sim_result.states) - 1].energy_remaining)
    /\ ~RLess(Norm3(VSub3(sim_config.target, Last(sim_result.states).position)),
              RInt(Tolerance))

====
